---- MODULE Spec2Model ----
(***************************************************************************)
(* Leader geo map: generation (geo-mapper), binary encoding, binary-search *)
(* lookup and region selection (procedure).                                *)
(*                                                                         *)
(* Conventions.  Option<T>: None is <<>>, Some(x) is <<x>>.  A &str is the  *)
(* sequence of its bytes (ASCII codes).  A u64 is a sequence of 8 bytes,   *)
(* least significant first, because TLC integers are 32 bits wide.         *)
(***************************************************************************)
EXTENDS Integers, Sequences, FiniteSets, TLC

VARIABLES
    \* geo-mapper: fn run (src/geo-mapper/src/main.rs)
    rows,        \* Vec<InputRow> the run iterates over
    pc,          \* position of run()
    idx,         \* 1-based index of the next row of `for row in rows`
    reader,      \* Option<DbReader>: "None" | "Some"
    map,         \* BTreeMap<[u8; 32], GeoBucket>, as its ascending entry list
    err,         \* which `?` ended the run, "none" while it has not failed
    writeCalls,  \* number of write_binary_map invocations
    file,        \* blobs handed to fs::write, in order
    disk,        \* the output file: None while absent, else Some(its bytes)
    looked,      \* last lookup_geo_bucket made against the written file
    \* procedure: derive_leader_geo_and_region (src/procedure/src/lib.rs)
    geo_map,     \* the blob queried (LEADER_GEO_MAP_BIN)
    leader,      \* leader_pubkey: &str
    qpc,         \* position of the call; "panicked" after a panic
    qkey,        \* Option<[u8; 32]>: the decoded leader key
    left,        \* lookup_geo_bucket::left
    right,       \* lookup_geo_bucket::right
    probes,      \* iterations so far: [mid, left, right, lo, hi], where left and
                 \* right are those the iteration began with and lo..hi the
                 \* bytes it read (0-based)
    found,       \* Option<u8> returned by lookup_geo_bucket
    label,       \* Option<&str> returned by lookup_leader_geo_in_map
    out,         \* Option<(String, ServerRegion)> returned by the call
    \* geo-mapper: the merge loop and write_binary_map of two runs, side by side
    rowsA,       \* resolved (pubkey, bucket) pairs of the first run, in order
    rowsB,       \* resolved (pubkey, bucket) pairs of the second run
    mapA,        \* the first run's BTreeMap
    mapB,        \* the second run's BTreeMap
    dpc,         \* position of the pair of runs
    didx,        \* 1-based index of the next pair to merge
    fileA,       \* Option<Vec<u8>>: buffer write_binary_map encoded for mapA
    fileB,       \* Option<Vec<u8>>: buffer write_binary_map encoded for mapB
    fileA2,      \* Option<Vec<u8>>: buffer of a second encoding of mapA
    \* geo-mapper: fn parse_rows
    input,       \* input: &str
    ppc,         \* position of parse_rows: "idle" | "lines" | "ok" | "err"
    lineIdx,     \* idx of `for (idx, raw_line) in input.lines().enumerate()`
    parsed,      \* parse_rows::rows
    pret,        \* Option<Result<Vec<InputRow>, _>>: what parse_rows returned
    \* geo-mapper: fn parse_cluster_nodes_response
    payload,     \* the serde_json::Value the body parsed to
    npc,         \* position of the call: "idle" | "start" | "nodes" | "ok" | "err"
    nodeIdx,     \* 1-based index of the next node of `for node in result`
    nodeRows,    \* parse_cluster_nodes_response::rows
    nodeErr,     \* the Err returned, "none" while there is none
    \* the geo classifiers, each called on the same text (geo-mapper,
    \* geo-rules, procedure); a result is None until the call has returned
    text,        \* the &str argument
    labelRet,    \* Option of what GeoBucket::from_label returned
    isoRet,      \* Option of what bucket_from_country_iso returned
    inputRet,    \* Option of what bucket_from_geo_input returned
    geoRet,      \* Option of what procedure's region_from_geo returned
    geoInputRet, \* Option of what region_from_geo_input returned
    \* procedure: fallback_region and choose_region, called repeatedly
    geo,         \* leader_geo: &str
    identifier,  \* leader_pubkey: &str
    fallbackRets, \* what the calls of fallback_region(identifier) returned
    chooseRets,  \* what the calls of choose_region(geo, identifier) returned
    \* procedure: fn find_leader_for_slot_index
    leader_schedule, \* RpcLeaderSchedule: HashMap<String, Vec<usize>>, leader -> slots
    slot_index,  \* slot_index: usize
    spc,         \* position of find_leader_for_slot_index: "idle", "iter", "done"
    visited,     \* entries the HashMap iterator has yielded
    best,        \* Option<&str>: the accumulator of min()
    leaderRet,   \* Option<String> returned
    \* procedure: LeaderRoutingProcedure::run
    bin,         \* LEADER_GEO_MAP_BIN, the blob compiled in
    usizeMax,    \* usize::MAX of the build target
    rpos,        \* position of run: the stage to execute next, "done" after the return
    stages,      \* stages executed so far, in order
    slot,        \* Option<u64>: what get_slot answered
    first_slot_in_epoch, \* Option<u64>: first slot of the epoch of slot
    fetched,     \* Option of the answer of get_leader_schedule
    indexInEpoch, \* Option<usize>: slot_index
    routed,      \* Option<String>: the leader resolved
    ret          \* Option<Result<LeaderRoutingOutput, RpcError<ProcedureErrorData>>>

genVars == <<rows, pc, idx, reader, map, err, writeCalls, file, disk, looked>>
lookVars == <<geo_map, leader, qpc, qkey, left, right, probes, found, label, out>>
detVars == <<rowsA, rowsB, mapA, mapB, dpc, didx, fileA, fileB, fileA2>>
parseVars == <<input, ppc, lineIdx, parsed, pret>>
nodeVars == <<payload, npc, nodeIdx, nodeRows, nodeErr>>
classVars == <<text, labelRet, isoRet, inputRet, geoRet, geoInputRet>>
regionVars == <<geo, identifier, fallbackRets, chooseRets>>
schedVars == <<leader_schedule, slot_index, spc, visited, best, leaderRet>>
runVars ==
    <<bin, usizeMax, rpos, stages, slot, first_slot_in_epoch, fetched, indexInEpoch,
      routed, ret>>

vars == <<genVars, lookVars, detVars, parseVars, nodeVars, classVars, regionVars, schedVars, runVars>>

\* the variables of the other components, which a component leaves alone
notGen == <<lookVars, detVars, parseVars, nodeVars, classVars, regionVars, schedVars, runVars>>
notLook == <<genVars, detVars, parseVars, nodeVars, classVars, regionVars, schedVars, runVars>>
notDet == <<genVars, lookVars, parseVars, nodeVars, classVars, regionVars, schedVars, runVars>>
notParse == <<genVars, lookVars, detVars, nodeVars, classVars, regionVars, schedVars, runVars>>
notNodes == <<genVars, lookVars, detVars, parseVars, classVars, regionVars, schedVars, runVars>>
notClass == <<genVars, lookVars, detVars, parseVars, nodeVars, regionVars, schedVars, runVars>>
notRegion == <<genVars, lookVars, detVars, parseVars, nodeVars, classVars, schedVars, runVars>>
notSched == <<genVars, lookVars, detVars, parseVars, nodeVars, classVars, regionVars, runVars>>
notRun == <<genVars, lookVars, detVars, parseVars, nodeVars, classVars, regionVars, schedVars>>

-----------------------------------------------------------------------------
(* Bounds of the model *)

MaxRows == 3
MaxRecords == 3
MaxMapRecords == 2
MaxInserts == 2
MaxLines == 2
MaxNodes == 2
MaxAts == 2        \* '@' characters in front of a classified text
MaxPad == 1        \* whitespace characters on each side of a classified text
MaxIdLen == 2      \* bytes of a generated identifier
MaxCalls == 2      \* repeated calls of a function on the same arguments
MaxLeaders == 3    \* entries of a leader schedule
MaxLongRecords == 7 \* records of a blob of the search over long blobs
MaxSlot == 2        \* the largest slot number an RPC node answers
NarrowUsizeMax == 1 \* usize::MAX of a target whose usize is narrower than u64,
                    \* on the scale of the slot numbers of the model

-----------------------------------------------------------------------------
(* Program constants *)

ERROR_CODE_INTERNAL == 500
LEADER_GEO_RECORD_SIZE == 33
RECORD_SIZE == 33
PUBKEY_LEN == 32

None == <<>>
Some(x) == <<x>>

-----------------------------------------------------------------------------
(* Bytes and strings *)

Repeat(b, n) == [i \in 1..n |-> b]

Reverse(s) == [i \in 1..Len(s) |-> s[Len(s) + 1 - i]]

\* u8 char::to_ascii_uppercase
AsciiUpperByte(c) == IF c >= 97 /\ c <= 122 THEN c - 32 ELSE c

\* str::to_ascii_uppercase
to_ascii_uppercase(s) == [i \in 1..Len(s) |-> AsciiUpperByte(s[i])]

\* str::trim_start_matches(pattern), for the characters of the set cs
TrimStartOf(s, cs) ==
    IF \A i \in 1..Len(s) : s[i] \in cs THEN <<>>
    ELSE SubSeq(s, CHOOSE i \in 1..Len(s) :
                       s[i] \notin cs /\ \A j \in 1..(i - 1) : s[j] \in cs,
                Len(s))

\* str::trim_end_matches(pattern), for the characters of the set cs
TrimEndOf(s, cs) ==
    IF \A i \in 1..Len(s) : s[i] \in cs THEN <<>>
    ELSE SubSeq(s, 1, CHOOSE i \in 1..Len(s) :
                          s[i] \notin cs /\ \A j \in (i + 1)..Len(s) : s[j] \in cs)

\* char::is_whitespace restricted to ASCII input: TAB LF VT FF CR SPACE
Whitespace == {9, 10, 11, 12, 13, 32}

TrimStart(s) == TrimStartOf(s, Whitespace)

TrimEnd(s) == TrimEndOf(s, Whitespace)

\* str::trim
trim(s) == TrimEnd(TrimStart(s))

\* Ord for [u8]: unsigned lexicographic comparison, a shorter prefix is Less
SliceCmp(a, b) ==
    LET n == IF Len(a) < Len(b) THEN Len(a) ELSE Len(b)
        Differ(d) ==
            IF d = {}
            THEN IF Len(a) < Len(b) THEN "Less"
                 ELSE IF Len(a) > Len(b) THEN "Greater"
                 ELSE "Equal"
            ELSE LET first == CHOOSE i \in d : \A j \in d : i <= j IN
                 IF a[first] < b[first] THEN "Less" ELSE "Greater"
    IN Differ({ i \in 1..n : a[i] # b[i] })

-----------------------------------------------------------------------------
(* GeoBucket (geo-mapper) *)

GeoBuckets == {"Unknown", "Eu", "Na", "Apac", "Me"}

\* GeoBucket::as_u8: the #[repr(u8)] discriminant
as_u8(bucket) ==
    CASE bucket = "Unknown" -> 0
      [] bucket = "Eu" -> 1
      [] bucket = "Na" -> 2
      [] bucket = "Apac" -> 3
      [] bucket = "Me" -> 4

\* two-letter country codes, as ASCII bytes
EuCodes ==
    { <<68, 69>>, <<70, 82>>, <<78, 76>>, <<71, 66>>, <<67, 72>>,   \* DE FR NL GB CH
      <<83, 69>>, <<78, 79>>, <<80, 76>>, <<69, 83>>, <<73, 84>> }  \* SE NO PL ES IT
MeCodes ==
    { <<65, 69>>, <<83, 65>>, <<73, 76>>, <<84, 82>>,               \* AE SA IL TR
      <<81, 65>>, <<66, 72>>, <<79, 77>>, <<75, 87>> }              \* QA BH OM KW
NaCodes ==
    { <<85, 83>>, <<67, 65>>, <<77, 88>> }                          \* US CA MX
ApacCodes ==
    { <<74, 80>>, <<75, 82>>, <<83, 71>>, <<72, 75>>,               \* JP KR SG HK
      <<84, 87>>, <<73, 78>>, <<65, 85>>, <<78, 90>> }              \* TW IN AU NZ

\* fn country_to_bucket: uppercases, does not trim
country_to_bucket(iso_code) ==
    LET code == to_ascii_uppercase(iso_code) IN
    IF code \in EuCodes THEN "Eu"
    ELSE IF code \in MeCodes THEN "Me"
    ELSE IF code \in NaCodes THEN "Na"
    ELSE IF code \in ApacCodes THEN "Apac"
    ELSE "Unknown"

-----------------------------------------------------------------------------
(* The geoip backend: a fixed database content, one result per address *)

IpV4(a, b, c, d) == [v |-> 4, octets |-> <<a, b, c, d>>]

IpJp == IpV4(203, 0, 113, 7)      \* a city record with country "jp"
IpBare == IpV4(10, 0, 0, 1)       \* found, no country iso code
IpBroken == IpV4(192, 0, 2, 66)   \* reader.lookup / decode fails

\* reader.lookup(ip)? then result.decode::<geoip2::City>()?: "err" when either
\* fails, else the Option<&str> country.iso_code of the decoded city
GeoIpLookup(ip) ==
    IF ip = IpBroken THEN [ok |-> FALSE, iso |-> None]
    ELSE IF ip = IpJp THEN [ok |-> TRUE, iso |-> Some(<<106, 112>>)]
    ELSE [ok |-> TRUE, iso |-> None]

\* fn compute_geolocation -> Result<GeoBucket, _>
compute_geolocation(ip) ==
    LET r == GeoIpLookup(ip) IN
    IF ~r.ok THEN [ok |-> FALSE, bucket |-> "Unknown"]
    ELSE IF r.iso # None THEN [ok |-> TRUE, bucket |-> country_to_bucket(r.iso[1])]
    ELSE [ok |-> TRUE, bucket |-> "Unknown"]

-----------------------------------------------------------------------------
(* BTreeMap<[u8; 32], GeoBucket>: the ascending list of its entries *)

\* number of entries whose key is Less than `key`: where `key` is or belongs
RECURSIVE BTreeRank(_, _)
BTreeRank(m, key) ==
    IF m = <<>> \/ SliceCmp(Head(m).key, key) # "Less" THEN 0
    ELSE 1 + BTreeRank(Tail(m), key)

BTreeContains(m, key) ==
    LET r == BTreeRank(m, key) IN r < Len(m) /\ m[r + 1].key = key

BTreeGet(m, key) == m[BTreeRank(m, key) + 1].value

\* mutant: a Vec push instead of an ordered insert
BTreeInsertAppend(m, key, value) == Append(m, [key |-> key, value |-> value])

\* BTreeMap::insert of a key the map does not hold
BTreeInsertNew(m, key, value) ==
    LET r == BTreeRank(m, key) IN
    SubSeq(m, 1, r) \o <<[key |-> key, value |-> value]>> \o SubSeq(m, r + 1, Len(m))

\* mutant: map.entry(pubkey).or_insert(bucket), the upgrade dropped
MergeRowFirstWins(m, pubkey, bucket) ==
    IF BTreeContains(m, pubkey) THEN m ELSE BTreeInsertNew(m, pubkey, bucket)

\* mutant: map.insert(pubkey, bucket), the last row wins
MergeRowLastWins(m, pubkey, bucket) ==
    IF BTreeContains(m, pubkey)
    THEN [m EXCEPT ![BTreeRank(m, pubkey) + 1].value = bucket]
    ELSE BTreeInsertNew(m, pubkey, bucket)

\* mutant: the map kept as a Vec of entries in arrival order
MergeRowPush(m, pubkey, bucket) ==
    IF \E i \in 1..Len(m) : m[i].key = pubkey
    THEN LET r == CHOOSE i \in 1..Len(m) : m[i].key = pubkey IN
         IF m[r].value = "Unknown" /\ bucket # "Unknown"
         THEN [m EXCEPT ![r].value = bucket]
         ELSE m
    ELSE Append(m, [key |-> pubkey, value |-> bucket])

\* map.entry(pubkey).and_modify(|existing| ...).or_insert(bucket)
MergeRow(m, pubkey, bucket) ==
    IF BTreeContains(m, pubkey)
    THEN LET r == BTreeRank(m, pubkey) IN
         IF m[r + 1].value = "Unknown" /\ bucket # "Unknown"
         THEN [m EXCEPT ![r + 1].value = bucket]
         ELSE m
    ELSE BTreeInsertNew(m, pubkey, bucket)

-----------------------------------------------------------------------------
(* write_binary_map: the bytes handed to fs::write *)

RECURSIVE EncodeMap(_)
EncodeMap(m) ==
    IF m = <<>> THEN <<>>
    ELSE Head(m).key \o <<as_u8(Head(m).value)>> \o EncodeMap(Tail(m))

-----------------------------------------------------------------------------
(* procedure: lookup_geo_bucket *)

\* mutant: the midpoint rounded up
MidRoundedUp(lo, hi) == lo + (hi - lo + 1) \div 2

\* line 163: `let mid = left + (right - left) / 2`
Mid(lo, hi) == lo + (hi - lo) \div 2

\* mutant: a smaller key leaves left at mid
LookupStepLeftAtMid(blob, leader_pubkey, lo, hi) ==
    LET mid == Mid(lo, hi)
        offset == mid * LEADER_GEO_RECORD_SIZE
        key == SubSeq(blob, offset + 1, offset + 32)
        ord == SliceCmp(key, leader_pubkey)
    IN  CASE ord = "Less" ->
               [left |-> mid, right |-> hi, done |-> FALSE, res |-> None,
                mid |-> mid]
          [] ord = "Greater" ->
               [left |-> lo, right |-> mid, done |-> FALSE, res |-> None,
                mid |-> mid]
          [] ord = "Equal" ->
               [left |-> lo, right |-> hi, done |-> TRUE,
                res |-> IF offset + 32 < Len(blob)
                        THEN Some(blob[offset + 32 + 1]) ELSE None,
                mid |-> mid]

\* mutant: Equal returns the byte at offset + 31, the last byte of the key
LookupStepKeyByte(blob, leader_pubkey, lo, hi) ==
    LET mid == Mid(lo, hi)
        offset == mid * LEADER_GEO_RECORD_SIZE
        key == SubSeq(blob, offset + 1, offset + 32)
        ord == SliceCmp(key, leader_pubkey)
    IN  CASE ord = "Less" ->
               [left |-> mid + 1, right |-> hi, done |-> FALSE, res |-> None,
                mid |-> mid]
          [] ord = "Greater" ->
               [left |-> lo, right |-> mid, done |-> FALSE, res |-> None,
                mid |-> mid]
          [] ord = "Equal" ->
               [left |-> lo, right |-> hi, done |-> TRUE,
                res |-> Some(blob[offset + 32]),
                mid |-> mid]

\* mutant: the two halves of the search swapped
LookupStepSwapped(blob, leader_pubkey, lo, hi) ==
    LET mid == Mid(lo, hi)
        offset == mid * LEADER_GEO_RECORD_SIZE
        key == SubSeq(blob, offset + 1, offset + 32)
        ord == SliceCmp(key, leader_pubkey)
    IN  CASE ord = "Less" ->
               [left |-> lo, right |-> mid, done |-> FALSE, res |-> None,
                mid |-> mid]
          [] ord = "Greater" ->
               [left |-> mid + 1, right |-> hi, done |-> FALSE, res |-> None,
                mid |-> mid]
          [] ord = "Equal" ->
               [left |-> lo, right |-> hi, done |-> TRUE,
                res |-> IF offset + 32 < Len(blob)
                        THEN Some(blob[offset + 32 + 1]) ELSE None,
                mid |-> mid]

\* one iteration of `while left < right`; the caller holds left < right
LookupStep(blob, leader_pubkey, lo, hi) ==
    LET mid == Mid(lo, hi)
        offset == mid * LEADER_GEO_RECORD_SIZE
        key == SubSeq(blob, offset + 1, offset + 32)
        ord == SliceCmp(key, leader_pubkey)
    IN  CASE ord = "Less" ->
               [left |-> mid + 1, right |-> hi, done |-> FALSE, res |-> None,
                mid |-> mid]
          [] ord = "Greater" ->
               [left |-> lo, right |-> mid, done |-> FALSE, res |-> None,
                mid |-> mid]
          [] ord = "Equal" ->
               [left |-> lo, right |-> hi, done |-> TRUE,
                res |-> IF offset + 32 < Len(blob)
                        THEN Some(blob[offset + 32 + 1]) ELSE None,
                mid |-> mid]

RECURSIVE LookupLoop(_, _, _, _)
LookupLoop(blob, leader_pubkey, lo, hi) ==
    IF lo < hi
    THEN LET s == LookupStep(blob, leader_pubkey, lo, hi) IN
         IF s.done THEN s.res
         ELSE LookupLoop(blob, leader_pubkey, s.left, s.right)
    ELSE None

\* mutant: the alignment check dropped
MisalignedUnchecked(blob) == FALSE

\* line 155: !blob.len().is_multiple_of(LEADER_GEO_RECORD_SIZE)
Misaligned(blob) == Len(blob) % LEADER_GEO_RECORD_SIZE # 0

\* fn lookup_geo_bucket(blob, leader_pubkey) -> Option<u8>
lookup_geo_bucket(blob, leader_pubkey) ==
    IF Misaligned(blob) THEN None
    ELSE LookupLoop(blob, leader_pubkey, 0,
                    Len(blob) \div LEADER_GEO_RECORD_SIZE)

-----------------------------------------------------------------------------
(* procedure: base58 decoding of the leader identifier (bs58::decode) *)

\* the Bitcoin alphabet 123456789ABCDEFGHJKLMNPQRSTUVWXYZabcdefghijkmnopqrstuvwxyz
B58Alphabet ==
    << 49, 50, 51, 52, 53, 54, 55, 56, 57,
       65, 66, 67, 68, 69, 70, 71, 72, 74, 75, 76, 77, 78, 80, 81, 82, 83, 84,
       85, 86, 87, 88, 89, 90,
       97, 98, 99, 100, 101, 102, 103, 104, 105, 106, 107, 109, 110, 111, 112,
       113, 114, 115, 116, 117, 118, 119, 120, 121, 122 >>

\* the digit of a character, -1 for a character outside the alphabet
B58Digit(c) ==
    IF \E i \in 1..Len(B58Alphabet) : B58Alphabet[i] = c
    THEN (CHOOSE i \in 1..Len(B58Alphabet) : B58Alphabet[i] = c) - 1
    ELSE -1

\* `while val > 0 { output.push(val as u8); val >>= 8 }`
RECURSIVE B58Spill(_)
B58Spill(val) ==
    IF val = 0 THEN <<>> ELSE <<val % 256>> \o B58Spill(val \div 256)

\* `for byte in output { val += byte * 58; byte = val as u8; val >>= 8 }`
\* for the bytes lo .. hi of output, held least significant byte first: the
\* bytes written, followed by the val carried on.  A range of several bytes
\* is run as its lower half and then its upper half.
RECURSIVE B58AbsorbRange(_, _, _, _)

B58AbsorbUpper(output, lo, hi, lower) ==
    SubSeq(lower, 1, Len(lower) - 1) \o B58AbsorbRange(output, lo, hi, lower[Len(lower)])

B58AbsorbRange(output, lo, hi, val) ==
    CASE lo > hi -> <<val>>
      [] lo = hi -> << (val + output[lo] * 58) % 256, (val + output[lo] * 58) \div 256 >>
      [] OTHER -> B58AbsorbUpper(output, ((lo + hi) \div 2) + 1, hi,
                                 B58AbsorbRange(output, lo, (lo + hi) \div 2, val))

\* the bytes written and what `while val > 0` pushes of the val carried on
B58Spilled(written) ==
    SubSeq(written, 1, Len(written) - 1) \o B58Spill(written[Len(written)])

\* one character of value val absorbed into output
B58Absorb(output, val) == B58Spilled(B58AbsorbRange(output, 1, Len(output), val))

B58Invalid == [ok |-> FALSE, bytes |-> <<>>]

\* `for c in input { ... }` for the characters lo .. hi, folded into output;
\* a character outside the alphabet ends the decoding with an error.  A
\* range of several characters is run as its first half and then its second.
RECURSIVE B58Fold(_, _, _, _)

B58FoldChar(output, val) ==
    IF val < 0 THEN B58Invalid ELSE [ok |-> TRUE, bytes |-> B58Absorb(output, val)]

B58FoldSecond(encoded, lo, hi, first) ==
    IF first.ok THEN B58Fold(encoded, lo, hi, first.bytes) ELSE first

B58Fold(encoded, lo, hi, output) ==
    CASE lo > hi -> [ok |-> TRUE, bytes |-> output]
      [] lo = hi -> B58FoldChar(output, B58Digit(encoded[lo]))
      [] OTHER -> B58FoldSecond(encoded, ((lo + hi) \div 2) + 1, hi,
                                B58Fold(encoded, lo, (lo + hi) \div 2, output))

\* number of leading '1' characters: each stands for one leading zero byte
B58LeadingOnes(encoded) == Len(encoded) - Len(TrimStartOf(encoded, {49}))

\* bs58::decode(encoded).into_vec()
Bs58Decode(encoded) ==
    LET Decoded(f) ==
            IF ~f.ok THEN f
            ELSE [ok |-> TRUE,
                  bytes |-> Reverse(f.bytes \o Repeat(0, B58LeadingOnes(encoded)))]
    IN Decoded(B58Fold(encoded, 1, Len(encoded), <<>>))

\* fn decode_leader_pubkey(leader_pubkey: &str) -> Option<[u8; 32]>
decode_leader_pubkey(leader_pubkey) ==
    LET Sized(decoded) ==
            IF ~decoded.ok THEN None
            ELSE IF Len(decoded.bytes) # 32 THEN None
            ELSE Some(decoded.bytes)
    IN Sized(Bs58Decode(leader_pubkey))

-----------------------------------------------------------------------------
(* procedure: labels and regions *)

UNKNOWN_GEO == <<85, 78, 75, 78, 79, 87, 78>>   \* "UNKNOWN"
LabelEU == <<69, 85>>                           \* "EU"
LabelNA == <<78, 65>>                           \* "NA"
LabelAPAC == <<65, 80, 65, 67>>                 \* "APAC"
LabelME == <<77, 69>>                           \* "ME"

ServerRegions == {"Dubai", "Frankfurt", "NewYork", "Tokyo"}

\* mutant: the arms numbered from 0
geo_bucket_to_labelFromZero(bucket) ==
    CASE bucket = 0 -> Some(LabelEU)
      [] bucket = 1 -> Some(LabelNA)
      [] bucket = 2 -> Some(LabelAPAC)
      [] bucket = 3 -> Some(LabelME)
      [] OTHER -> None

\* fn geo_bucket_to_label(bucket: u8) -> Option<&'static str>
geo_bucket_to_label(bucket) ==
    CASE bucket = 1 -> Some(LabelEU)
      [] bucket = 2 -> Some(LabelNA)
      [] bucket = 3 -> Some(LabelAPAC)
      [] bucket = 4 -> Some(LabelME)
      [] OTHER -> None

\* fn region_from_geo(leader_geo: &str) -> Option<ServerRegion>
region_from_geo(leader_geo) ==
    LET g == to_ascii_uppercase(trim(leader_geo)) IN
    IF g = LabelEU \/ g \in EuCodes THEN Some("Frankfurt")
    ELSE IF g = LabelME \/ g \in MeCodes THEN Some("Dubai")
    ELSE IF g = LabelNA \/ g \in NaCodes THEN Some("NewYork")
    ELSE IF g = LabelAPAC \/ g \in ApacCodes THEN Some("Tokyo")
    ELSE None

\* u8 ^ u8, bit by bit
XorBits(a, b) ==
    LET Bit(w) == w * ((((a \div w) % 2) + ((b \div w) % 2)) % 2)
    IN ((Bit(1) + Bit(2)) + (Bit(4) + Bit(8)))
       + ((Bit(16) + Bit(32)) + (Bit(64) + Bit(128)))

\* 0xcbf29ce484222325 and 0x100000001b3, least significant byte first
FnvOffsetBasis == <<37, 35, 34, 132, 228, 156, 242, 203>>
FnvPrime == <<179, 1, 0, 0, 0, 1, 0, 0>>

\* hash ^= u64::from(byte)
U64XorByte(hash, byte) == [hash EXCEPT ![1] = XorBits(hash[1], byte)]

\* sum of the byte products a[i] * b[j] with i + j = k + 1, of 8-byte values
MulColumn(a, b, k) ==
    LET P(i) == IF i <= k THEN a[i] * b[k + 1 - i] ELSE 0
    IN ((P(1) + P(2)) + (P(3) + P(4))) + ((P(5) + P(6)) + (P(7) + P(8)))

\* the bytes lo .. hi of the product and the carry into the next byte; a
\* range of several bytes is computed as its lower half and then its upper
RECURSIVE MulLimbs(_, _, _, _, _)
MulLimbs(a, b, lo, hi, carry) ==
    LET mid == (lo + hi) \div 2
        Byte(t) == [bytes |-> <<t % 256>>, carry |-> t \div 256]
        Join(lower, upper) == [bytes |-> lower.bytes \o upper.bytes, carry |-> upper.carry]
        Upper(lower) == Join(lower, MulLimbs(a, b, mid + 1, hi, lower.carry))
    IN IF lo = hi THEN Byte(MulColumn(a, b, lo) + carry)
       ELSE Upper(MulLimbs(a, b, lo, mid, carry))

\* u64::wrapping_mul: the product modulo 2^64
wrapping_mul(a, b) == MulLimbs(a, b, 1, 8, 0).bytes

\* mutant: FNV-1, the multiplication before the XOR
FnvStepMultiplyFirst(hash, byte) == U64XorByte(wrapping_mul(hash, FnvPrime), byte)

\* one iteration of the loop of fnv1a64:
\* `hash ^= u64::from(*byte); hash = hash.wrapping_mul(0x100000001b3)`
FnvStep(hash, byte) == wrapping_mul(U64XorByte(hash, byte), FnvPrime)

\* the loop of fnv1a64 for the bytes lo .. hi; a range of several bytes is
\* run as its first half and then its second
RECURSIVE FnvFold(_, _, _, _)

FnvFoldSecond(bytes, lo, hi, first) ==
    IF Len(first) = 8 THEN FnvFold(bytes, lo, hi, first) ELSE first

FnvFold(bytes, lo, hi, hash) ==
    CASE lo > hi -> hash
      [] lo = hi -> FnvStep(hash, bytes[lo])
      [] OTHER -> FnvFoldSecond(bytes, ((lo + hi) \div 2) + 1, hi,
                                FnvFold(bytes, lo, (lo + hi) \div 2, hash))

\* fn fnv1a64(bytes: &[u8]) -> u64
fnv1a64(bytes) == FnvFold(bytes, 1, Len(bytes), FnvOffsetBasis)

\* fn fallback_region: hash % 4 is the low byte % 4, 4 dividing 256
fallback_region(leader_pubkey) ==
    LET r == fnv1a64(leader_pubkey)[1] % 4 IN
    CASE r = 0 -> "Dubai"
      [] r = 1 -> "Frankfurt"
      [] r = 2 -> "NewYork"
      [] OTHER -> "Tokyo"

\* mutant: the hash decides whatever the geo
choose_regionFallbackOnly(leader_geo, leader_pubkey) == fallback_region(leader_pubkey)

\* fn choose_region(leader_geo, leader_pubkey) -> ServerRegion
choose_region(leader_geo, leader_pubkey) ==
    LET r == region_from_geo(leader_geo) IN
    IF r # None THEN r[1] ELSE fallback_region(leader_pubkey)

\* fn lookup_leader_geo_in_map(blob, leader_pubkey) -> Option<&'static str>
lookup_leader_geo_in_map(blob, leader_pubkey) ==
    LET k == decode_leader_pubkey(leader_pubkey) IN
    IF k = None THEN None
    ELSE LET bucket == lookup_geo_bucket(blob, k[1]) IN
         IF bucket = None THEN None ELSE geo_bucket_to_label(bucket[1])

\* fn derive_leader_geo_and_region(leader_pubkey, blob) -> (String, ServerRegion)
derive_leader_geo_and_region(leader_pubkey, blob) ==
    LET l == lookup_leader_geo_in_map(blob, leader_pubkey)
        leader_geo == IF l = None THEN UNKNOWN_GEO ELSE l[1]
    IN  [geo |-> leader_geo, region |-> choose_region(leader_geo, leader_pubkey)]

-----------------------------------------------------------------------------
(* Inputs of the generation run *)

MkKey(a, b) == [i \in 1..PUBKEY_LEN |-> IF i = 1 THEN a ELSE IF i = PUBKEY_LEN THEN b ELSE 0]

KeyA == MkKey(0, 0)
KeyB == MkKey(0, 1)
KeyC == MkKey(1, 0)
KeyD == MkKey(128, 0)

\* keys of input rows; KeyC never occurs in a row
RowKeys == {KeyA, KeyB, KeyD}
AllKeys == {KeyA, KeyB, KeyC, KeyD}

BucketSource(b) == [kind |-> "Bucket", bucket |-> b, ip |-> None]
IpSource(ip) == [kind |-> "Ip", bucket |-> "Unknown", ip |-> Some(ip)]

RowSources ==
    { BucketSource("Unknown"), BucketSource("Eu"),
      IpSource(IpJp), IpSource(IpBare), IpSource(IpBroken) }

RowPool == { [pubkey |-> k, geo_source |-> s] : k \in RowKeys, s \in RowSources }

SeqsUpTo(S, n) == UNION { [1..k -> S] : k \in 0..n }

\* what the output path may hold from an earlier run when this run starts
StaleFile == <<7, 7, 7>>

\* the numbers of bytes fs::write may have written when it fails part-way:
\* none, one whole record, one record and a part of the next
WriteCuts == {0, RECORD_SIZE, RECORD_SIZE + 7}

-----------------------------------------------------------------------------
(* The components that do not take part in a specification stay as they are *)

GenIdle ==
    /\ rows = <<>>
    /\ pc = "idle"
    /\ idx = 1
    /\ reader = "None"
    /\ map = <<>>
    /\ err = "none"
    /\ writeCalls = 0
    /\ file = <<>>
    /\ disk = None
    /\ looked = None

LookIdle ==
    /\ geo_map = <<>>
    /\ leader = <<>>
    /\ qpc = "idle"
    /\ qkey = None
    /\ left = 0
    /\ right = 0
    /\ probes = <<>>
    /\ found = None
    /\ label = None
    /\ out = None

DetIdle ==
    /\ rowsA = <<>>
    /\ rowsB = <<>>
    /\ mapA = <<>>
    /\ mapB = <<>>
    /\ dpc = "idle"
    /\ didx = 1
    /\ fileA = None
    /\ fileB = None
    /\ fileA2 = None

ParseIdle ==
    /\ input = <<>>
    /\ ppc = "idle"
    /\ lineIdx = 0
    /\ parsed = <<>>
    /\ pret = None

NodesIdle ==
    /\ payload = <<>>
    /\ npc = "idle"
    /\ nodeIdx = 1
    /\ nodeRows = <<>>
    /\ nodeErr = "none"

ClassIdle ==
    /\ text = <<>>
    /\ labelRet = None
    /\ isoRet = None
    /\ inputRet = None
    /\ geoRet = None
    /\ geoInputRet = None

RegionIdle ==
    /\ geo = <<>>
    /\ identifier = <<>>
    /\ fallbackRets = <<>>
    /\ chooseRets = <<>>

SchedIdle ==
    /\ leader_schedule = <<>>
    /\ slot_index = 0
    /\ spc = "idle"
    /\ visited = {}
    /\ best = None
    /\ leaderRet = None

RunIdle ==
    /\ bin = <<>>
    /\ usizeMax = 0
    /\ rpos = "idle"
    /\ stages = <<>>
    /\ slot = None
    /\ first_slot_in_epoch = None
    /\ fetched = None
    /\ indexInEpoch = None
    /\ routed = None
    /\ ret = None

-----------------------------------------------------------------------------
(* geo-mapper: fn run *)

GenInit ==
    /\ rows \in SeqsUpTo(RowPool, MaxRows)
    /\ pc = "start"
    /\ idx = 1
    /\ reader = "None"
    /\ map = <<>>
    /\ err = "none"
    /\ writeCalls = 0
    /\ file = <<>>
    /\ disk \in {None, Some(StaleFile)}
    /\ looked = None
    /\ LookIdle /\ DetIdle /\ ParseIdle /\ NodesIdle /\ ClassIdle /\ RegionIdle /\ SchedIdle /\ RunIdle

\* `return Err(..)` / `?`: run ends, main prints and exits 1
Fail(stage) ==
    /\ pc' = "failed"
    /\ err' = stage

\* lines 72-85: parse_cli()?, then parse_rows(..)? or fetch_rows_from_rpc(..)?
AcquireRows ==
    /\ pc = "start"
    /\ \/ /\ pc' = "open_db"
          /\ UNCHANGED err
       \/ Fail("rows")
    /\ UNCHANGED <<rows, idx, reader, map, writeCalls, file, disk, looked>>
    /\ UNCHANGED notGen

requires_db == \E i \in 1..Len(rows) : rows[i].geo_source.kind = "Ip"

\* lines 91-99: the reader is opened only when some row holds an address
OpenDb ==
    /\ pc = "open_db"
    /\ IF requires_db
       THEN \/ /\ reader' = "Some"
               /\ pc' = "loop"
               /\ UNCHANGED err
            \/ /\ Fail("open_db")
               /\ UNCHANGED reader
       ELSE /\ reader' = "None"
            /\ pc' = "loop"
            /\ UNCHANGED err
    /\ UNCHANGED <<rows, idx, map, writeCalls, file, disk, looked>>
    /\ UNCHANGED notGen

\* mutant: a backend failure swallowed as Unknown
ResolveRowSwallow(row, rd) ==
    IF row.geo_source.kind = "Bucket"
    THEN [ok |-> TRUE, bucket |-> row.geo_source.bucket, stage |-> "none"]
    ELSE IF rd = "None"
    THEN [ok |-> FALSE, bucket |-> "Unknown", stage |-> "reader"]
    ELSE [ok |-> TRUE, bucket |-> compute_geolocation(row.geo_source.ip[1]).bucket,
          stage |-> "none"]

\* the `match row.geo_source` of lines 104-112
ResolveRow(row, rd) ==
    IF row.geo_source.kind = "Bucket"
    THEN [ok |-> TRUE, bucket |-> row.geo_source.bucket, stage |-> "none"]
    ELSE IF rd = "None"
    THEN [ok |-> FALSE, bucket |-> "Unknown", stage |-> "reader"]
    ELSE LET g == compute_geolocation(row.geo_source.ip[1]) IN
         [ok |-> g.ok, bucket |-> g.bucket,
          stage |-> IF g.ok THEN "none" ELSE "resolve"]

\* one iteration of `for row in rows` (lines 103-121)
ProcessRow ==
    /\ pc = "loop"
    /\ idx <= Len(rows)
    /\ LET row == rows[idx]
           r == ResolveRow(row, reader)
       IN  IF r.ok
           THEN /\ map' = MergeRow(map, row.pubkey, r.bucket)
                /\ idx' = idx + 1
                /\ UNCHANGED <<pc, err>>
           ELSE /\ Fail(r.stage)
                /\ UNCHANGED <<map, idx>>
    /\ UNCHANGED <<rows, reader, writeCalls, file, disk, looked>>
    /\ UNCHANGED notGen

\* line 123: write_binary_map(&cli.output, &map)?  The buffer `output` is
\* built first (lines 409-413).  create_dir_all (line 416) may fail before
\* fs::write is reached.  fs::write (line 419) creates or truncates the file
\* and then writes the buffer: it may fail to create the file, leaving the
\* path as it was, or fail part-way through the write, leaving a proper
\* prefix of the buffer in place of whatever the file held.
WriteMap ==
    /\ pc = "loop"
    /\ idx > Len(rows)
    /\ writeCalls' = writeCalls + 1
    /\ LET output == EncodeMap(map)
       IN  \/ /\ Fail("write")
              /\ UNCHANGED <<file, disk>>
           \/ /\ file' = Append(file, output)
              /\ Fail("write")
              /\ UNCHANGED disk
           \/ /\ file' = Append(file, output)
              /\ \E n \in WriteCuts :
                    /\ n < Len(output)
                    /\ disk' = Some(SubSeq(output, 1, n))
              /\ Fail("write")
           \/ /\ file' = Append(file, output)
              /\ disk' = Some(output)
              /\ pc' = "done"
              /\ UNCHANGED err
    /\ UNCHANGED <<rows, idx, reader, map, looked>>
    /\ UNCHANGED notGen

\* the query side reading the file a successful run wrote
QueryWritten ==
    /\ pc = "done"
    /\ \E k \in AllKeys :
          looked' = Some([key |-> k, res |-> lookup_geo_bucket(disk[1], k)])
    /\ UNCHANGED <<rows, pc, idx, reader, map, err, writeCalls, file, disk>>
    /\ UNCHANGED notGen

GenNext == AcquireRows \/ OpenDb \/ ProcessRow \/ WriteMap \/ QueryWritten

SpecGen == GenInit /\ [][GenNext]_vars

-----------------------------------------------------------------------------
(* Inputs of the query path *)

\* base58 texts of KeyA .. KeyD
IdKeyA == <<49,49,49,49,49,49,49,49,49,49,49,49,49,49,49,49,49,49,49,49,49,49,49,49,49,49,49,49,49,49,49,49>>
IdKeyB == <<49,49,49,49,49,49,49,49,49,49,49,49,49,49,49,49,49,49,49,49,49,49,49,49,49,49,49,49,49,49,49,50>>
\* "4uQeVj5tqViQh7yWWGStvkEG1Zmhx6uasJtWCJziofM"
IdKeyC == <<52,117,81,101,86,106,53,116,113,86,105,81,104,55,121,87,87,71,83,116,118,107,69,71,49,90,109,104,120,54,117,97,115,74,116,87,67,74,122,105,111,102,77>>
\* "9cfBkPsoQ2NPHYPi7b69bcQG8FKfNc33k2UfRxiPFyd9"
IdKeyD == <<57,99,102,66,107,80,115,111,81,50,78,80,72,89,80,105,55,98,54,57,98,99,81,71,56,70,75,102,78,99,51,51,107,50,85,102,82,120,105,80,70,121,100,57>>
\* "invalid": 'l' is not a base58 character
IdBadChar == <<105,110,118,97,108,105,100>>
\* "2g": decodes to the single byte 97
IdShort == <<50,103>>
\* "JEKNVnkbo3jma5nREBBJCDoXFVeKkD56V3xKrvRmWxFH": decodes to 33 bytes
IdLong == <<74,69,75,78,86,110,107,98,111,51,106,109,97,53,110,82,69,66,66,74,67,68,111,88,70,86,101,75,107,68,53,54,86,51,120,75,114,118,82,109,87,120,70,72>>

LeaderPool == {IdKeyA, IdKeyB, IdKeyC, IdKeyD, IdBadChar, IdShort, IdLong}

\* records a blob is made of: all labels, Unknown, and bytes that are no bucket
RecordPool ==
    { KeyA \o <<1>>, KeyA \o <<0>>, KeyB \o <<2>>,
      KeyC \o <<3>>, KeyD \o <<4>>, KeyD \o <<255>> }

\* what follows the last whole record: nothing, 3 bytes, a key without bucket
TailPool == { <<>>, <<1, 2, 3>>, KeyA }

RECURSIVE Concat(_)
Concat(ss) == IF ss = <<>> THEN <<>> ELSE Head(ss) \o Concat(Tail(ss))

BlobsUpTo(n, tails) ==
    { Concat(rs) \o t : rs \in SeqsUpTo(RecordPool, n), t \in tails }

\* blobs queried by key, and blobs queried by leader identifier
BlobPool == BlobsUpTo(MaxRecords, TailPool)
MapPool == BlobsUpTo(MaxMapRecords, {<<>>, <<1, 2, 3>>})

-----------------------------------------------------------------------------
(* procedure: lookup_geo_bucket and derive_leader_geo_and_region, step by step *)

QueryInit(blobs) ==
    /\ geo_map \in blobs
    /\ leader = <<>>
    /\ qpc = "idle"
    /\ qkey = None
    /\ left = 0
    /\ right = 0
    /\ probes = <<>>
    /\ found = None
    /\ label = None
    /\ out = None
    /\ GenIdle /\ DetIdle /\ ParseIdle /\ NodesIdle /\ ClassIdle /\ RegionIdle /\ SchedIdle /\ RunIdle

\* a call lookup_geo_bucket(geo_map, &key), as the unit tests make it
StartLookup ==
    /\ qpc = "idle"
    /\ \E k \in AllKeys : qkey' = Some(k)
    /\ qpc' = "enter"
    /\ UNCHANGED <<geo_map, leader, left, right, probes, found, label, out>>
    /\ UNCHANGED notLook

\* line 93: run calls derive_leader_geo_and_region(&leader, LEADER_GEO_MAP_BIN)
StartDerive ==
    /\ qpc = "idle"
    /\ \E l \in LeaderPool : leader' = l
    /\ qpc' = "decode"
    /\ UNCHANGED <<geo_map, qkey, left, right, probes, found, label, out>>
    /\ UNCHANGED notLook

\* line 139: decode_leader_pubkey(leader_pubkey)?
DecodeLeader ==
    /\ qpc = "decode"
    /\ qkey' = decode_leader_pubkey(leader)
    /\ qpc' = IF qkey' = None THEN "derive" ELSE "enter"
    /\ UNCHANGED <<geo_map, leader, left, right, probes, found, label, out>>
    /\ UNCHANGED notLook

\* lines 155-160: the alignment check and the initial interval
EnterLookup ==
    /\ qpc = "enter"
    /\ IF Misaligned(geo_map)
       THEN /\ qpc' = "returned"
            /\ UNCHANGED <<left, right>>
       ELSE /\ left' = 0
            /\ right' = Len(geo_map) \div LEADER_GEO_RECORD_SIZE
            /\ qpc' = "search"
    /\ UNCHANGED <<geo_map, leader, qkey, probes, found, label, out>>
    /\ UNCHANGED notLook

\* lines 162-172: one iteration of the loop; Equal returns the bucket byte.
\* Line 165 slices geo_map[offset..offset + 32], which panics when the range
\* ends beyond the blob.
SearchStep ==
    /\ qpc = "search"
    /\ left < right
    /\ IF Mid(left, right) * LEADER_GEO_RECORD_SIZE + 32 > Len(geo_map)
       THEN /\ probes' = Append(probes,
                   [mid |-> Mid(left, right), left |-> left, right |-> right,
                    lo |-> Mid(left, right) * LEADER_GEO_RECORD_SIZE,
                    hi |-> Mid(left, right) * LEADER_GEO_RECORD_SIZE + 31])
            /\ qpc' = "panicked"
            /\ UNCHANGED <<left, right, found>>
       ELSE LET s == LookupStep(geo_map, qkey[1], left, right)
                lo == s.mid * LEADER_GEO_RECORD_SIZE
            IN  /\ left' = s.left
                /\ right' = s.right
                /\ probes' = Append(probes,
                       [mid |-> s.mid, left |-> left, right |-> right, lo |-> lo,
                        hi |-> IF s.done /\ s.res # None THEN lo + 32 ELSE lo + 31])
                /\ IF s.done
                   THEN /\ found' = s.res
                        /\ qpc' = "returned"
                   ELSE UNCHANGED <<found, qpc>>
    /\ UNCHANGED <<geo_map, leader, qkey, label, out>>
    /\ UNCHANGED notLook

\* line 174: the interval is empty
SearchMiss ==
    /\ qpc = "search"
    /\ left >= right
    /\ qpc' = "returned"
    /\ UNCHANGED <<geo_map, leader, qkey, left, right, probes, found, label, out>>
    /\ UNCHANGED notLook

\* lines 140-141: `lookup_geo_bucket(..)?` then geo_bucket_to_label(bucket)
LabelBucket ==
    /\ qpc = "returned"
    /\ label' = IF found = None THEN None ELSE geo_bucket_to_label(found[1])
    /\ qpc' = "derive"
    /\ UNCHANGED <<geo_map, leader, qkey, left, right, probes, found, out>>
    /\ UNCHANGED notLook

\* lines 131-135: unwrap_or(UNKNOWN_GEO), then choose_region
FinishDerive ==
    /\ qpc = "derive"
    /\ LET leader_geo == IF label = None THEN UNKNOWN_GEO ELSE label[1] IN
       out' = Some([geo |-> leader_geo,
                    region |-> choose_region(leader_geo, leader)])
    /\ qpc' = "done"
    /\ UNCHANGED <<geo_map, leader, qkey, left, right, probes, found, label>>
    /\ UNCHANGED notLook

\* lookup_geo_bucket called with a key, against any blob
LookInit == QueryInit(BlobPool)
LookNext == StartLookup \/ EnterLookup \/ SearchStep \/ SearchMiss
SpecLookup == LookInit /\ [][LookNext]_vars

\* the search over long blobs: up to MaxLongRecords records of two kinds in
\* any order.  A call that has been entered keeps running: nothing but the
\* call itself takes its steps, so each of them is taken while it is enabled.
LongRecordPool == { KeyB \o <<2>>, KeyC \o <<3>> }

LongBlobPool == { Concat(rs) : rs \in SeqsUpTo(LongRecordPool, MaxLongRecords) }

LongInit == QueryInit(LongBlobPool)

SpecLookupLong ==
    LongInit /\ [][LookNext]_vars /\ WF_vars(EnterLookup \/ SearchStep \/ SearchMiss)

\* derive_leader_geo_and_region called with a leader identifier
DeriveInit == QueryInit(MapPool)
DeriveNext ==
    StartDerive \/ DecodeLeader \/ EnterLookup \/ SearchStep \/ SearchMiss
        \/ LabelBucket \/ FinishDerive
SpecDerive == DeriveInit /\ [][DeriveNext]_vars

-----------------------------------------------------------------------------
(* geo-mapper: the merge loop of run and write_binary_map, for two runs whose *)
(* rows resolved to rowsA and to rowsB                                       *)

\* resolved rows: three keys, one of them also with an Unknown resolution
ResolvedPool ==
    { [pubkey |-> KeyA, bucket |-> "Eu"], [pubkey |-> KeyA, bucket |-> "Unknown"],
      [pubkey |-> KeyB, bucket |-> "Eu"], [pubkey |-> KeyD, bucket |-> "Apac"] }

DetInit ==
    /\ rowsA \in SeqsUpTo(ResolvedPool, MaxInserts)
    /\ rowsB \in SeqsUpTo(ResolvedPool, MaxInserts)
    /\ mapA = <<>>
    /\ mapB = <<>>
    /\ dpc = "mergeA"
    /\ didx = 1
    /\ fileA = None
    /\ fileB = None
    /\ fileA2 = None
    /\ GenIdle /\ LookIdle /\ ParseIdle /\ NodesIdle /\ ClassIdle /\ RegionIdle /\ SchedIdle /\ RunIdle

\* first run: one iteration of the merge loop, the loop's exit included
MergeA ==
    /\ dpc = "mergeA"
    /\ IF didx <= Len(rowsA)
       THEN /\ mapA' = MergeRow(mapA, rowsA[didx].pubkey, rowsA[didx].bucket)
            /\ didx' = didx + 1
            /\ dpc' = dpc
       ELSE /\ mapA' = mapA
            /\ didx' = 1
            /\ dpc' = "mergeB"
    /\ UNCHANGED <<rowsA, rowsB, mapB, fileA, fileB, fileA2>>
    /\ UNCHANGED notDet

\* second run: one iteration of the merge loop, the loop's exit included
MergeB ==
    /\ dpc = "mergeB"
    /\ IF didx <= Len(rowsB)
       THEN /\ mapB' = MergeRow(mapB, rowsB[didx].pubkey, rowsB[didx].bucket)
            /\ didx' = didx + 1
            /\ dpc' = dpc
       ELSE /\ mapB' = mapB
            /\ didx' = 1
            /\ dpc' = "write"
    /\ UNCHANGED <<rowsA, rowsB, mapA, fileA, fileB, fileA2>>
    /\ UNCHANGED notDet

\* lines 409-413 of write_binary_map for both maps: the buffer `output` it
\* builds; what fs::write then does with a buffer is in WriteMap
WritePair ==
    /\ dpc = "write"
    /\ fileA' = Some(EncodeMap(mapA))
    /\ fileB' = Some(EncodeMap(mapB))
    /\ dpc' = "again"
    /\ UNCHANGED <<rowsA, rowsB, mapA, mapB, didx, fileA2>>
    /\ UNCHANGED notDet

\* lines 409-413 of write_binary_map for the first map once more
WriteAgain ==
    /\ dpc = "again"
    /\ fileA2' = Some(EncodeMap(mapA))
    /\ dpc' = "done"
    /\ UNCHANGED <<rowsA, rowsB, mapA, mapB, didx, fileA, fileB>>
    /\ UNCHANGED notDet

DetNext == MergeA \/ MergeB \/ WritePair \/ WriteAgain

SpecDet == DetInit /\ [][DetNext]_vars

-----------------------------------------------------------------------------
(* core::net::parser: <IpAddr as FromStr> and <SocketAddr as FromStr>.  A    *)
(* read_* operator takes the text and the 1-based position it reads from and *)
(* returns [ok, pos, val]: whether it read something, the position after it  *)
(* and the value read.                                                      *)

IpV6(segments) == [v |-> 6, octets |-> segments]

\* char::to_digit(radix) for radix 10 and 16, -1 for None
ToDigit(c, radix) ==
    IF c >= 48 /\ c <= 57 THEN c - 48
    ELSE IF radix = 16 /\ c >= 97 /\ c <= 102 THEN c - 87
    ELSE IF radix = 16 /\ c >= 65 /\ c <= 70 THEN c - 55
    ELSE -1

\* number of digits the loop of read_number reads from pos on
CountDigits(s, pos, radix) ==
    IF \A i \in pos..Len(s) : ToDigit(s[i], radix) >= 0 THEN Len(s) + 1 - pos
    ELSE (CHOOSE i \in pos..Len(s) :
              ToDigit(s[i], radix) < 0 /\ \A j \in pos..(i - 1) : ToDigit(s[j], radix) >= 0)
         - pos

\* result = result * radix + digit over n digits; a value above cap stays
\* above cap (checked_mul / checked_add / try_into fail there)
RECURSIVE NumValue(_, _, _, _, _, _)
NumValue(s, pos, n, radix, acc, cap) ==
    IF n = 0 THEN acc
    ELSE LET v == acc * radix + ToDigit(s[pos], radix)
             w == IF v > cap THEN cap + 1 ELSE v
         IN IF w <= cap + 1 THEN NumValue(s, pos + 1, n - 1, radix, w, cap) ELSE w

NoNumber == [ok |-> FALSE, pos |-> 0, val |-> 0]
NoAddr == [ok |-> FALSE, pos |-> 0, val |-> <<>>]

\* the number read from digit_count digits: None when it overflows T
NumberOf(pos, digit_count, result, cap) ==
    IF result > cap THEN NoNumber
    ELSE [ok |-> TRUE, pos |-> pos + digit_count, val |-> result]

\* the checks of read_number on the digits read
NumberRead(s, pos, radix, max_digits, allow_zero_prefix, cap, digit_count) ==
    IF max_digits > 0 /\ digit_count > max_digits THEN NoNumber
    ELSE IF digit_count = 0 THEN NoNumber
    ELSE IF ~allow_zero_prefix /\ (pos <= Len(s) /\ s[pos] = 48) /\ digit_count > 1
         THEN NoNumber
    ELSE NumberOf(pos, digit_count, NumValue(s, pos, digit_count, radix, 0, cap), cap)

\* Parser::read_number::<T>(radix, max_digits, allow_zero_prefix) with
\* T::MAX = cap; max_digits = 0 stands for None
read_number(s, pos, radix, max_digits, allow_zero_prefix, cap) ==
    NumberRead(s, pos, radix, max_digits, allow_zero_prefix, cap,
               CountDigits(s, pos, radix))

\* Parser::read_given_char
read_given_char(s, pos, c) == pos <= Len(s) /\ s[pos] = c

\* Parser::read_separator(sep, index, inner): the position inner reads from,
\* 0 when the separator is missing
AfterSeparator(s, pos, sep, index) ==
    IF index = 0 THEN pos
    ELSE IF read_given_char(s, pos, sep) THEN pos + 1
    ELSE 0

\* the four octets of read_ipv4_addr, from octet number i on
RECURSIVE ReadOctets(_, _, _, _)

\* `p.read_separator('.', i, |p| p.read_number(10, Some(3), false))`
ReadOctet(s, p) == IF p = 0 THEN NoNumber ELSE read_number(s, p, 10, 3, FALSE, 255)

OctetAfter(s, i, acc, n) ==
    IF n.ok THEN ReadOctets(s, n.pos, i + 1, Append(acc, n.val)) ELSE NoAddr

ReadOctets(s, pos, i, acc) ==
    IF i = 4 THEN [ok |-> TRUE, pos |-> pos, val |-> acc]
    ELSE OctetAfter(s, i, acc, ReadOctet(s, AfterSeparator(s, pos, 46, i)))

\* Parser::read_ipv4_addr
read_ipv4_addr(s, pos) == ReadOctets(s, pos, 0, <<>>)

\* read_ipv6_addr::read_groups, from group number i on: [n, pos, groups, ipv4]
RECURSIVE read_groups(_, _, _, _, _)

\* the groups read when the loop ends at group number i
GroupsRead(pos, i, acc) == [n |-> i, pos |-> pos, groups |-> acc, ipv4 |-> FALSE]

\* a trailing embedded IPv4 address: two groups, and the last ones
GroupsEmbedded(i, acc, v4) ==
    [n |-> i + 2, pos |-> v4.pos, ipv4 |-> TRUE,
     groups |-> acc \o <<v4.val[1] * 256 + v4.val[2], v4.val[3] * 256 + v4.val[4]>>]

\* `let group = p.read_separator(':', i, |p| p.read_number(16, Some(4), true))`
GroupAfter(s, pos, i, limit, acc, g) ==
    IF g.ok THEN read_groups(s, g.pos, i + 1, limit, Append(acc, g.val))
    ELSE GroupsRead(pos, i, acc)

ReadHexGroup(s, p) == IF p = 0 THEN NoNumber ELSE read_number(s, p, 16, 4, TRUE, 65535)

\* `if i < limit - 1 { p.read_separator(':', i, |p| p.read_ipv4_addr()) }`
ReadEmbedded(s, p, i, limit) ==
    IF i < limit - 1 /\ p # 0 THEN read_ipv4_addr(s, p) ELSE NoAddr

GroupOrEmbedded(s, pos, i, limit, acc, p, v4) ==
    IF v4.ok THEN GroupsEmbedded(i, acc, v4)
    ELSE GroupAfter(s, pos, i, limit, acc, ReadHexGroup(s, p))

GroupAt(s, pos, i, limit, acc, p) ==
    GroupOrEmbedded(s, pos, i, limit, acc, p, ReadEmbedded(s, p, i, limit))

read_groups(s, pos, i, limit, acc) ==
    IF i >= limit THEN GroupsRead(pos, i, acc)
    ELSE GroupAt(s, pos, i, limit, acc, AfterSeparator(s, pos, 58, i))

\* the address of the groups before and after "::"
GroupsAround(head, tail) ==
    [ok |-> TRUE, pos |-> tail.pos,
     val |-> IpV6(head.groups \o Repeat(0, 8 - head.n - tail.n) \o tail.groups)]

\* read_ipv6_addr after its first read_groups
AfterHead(s, head) ==
    IF head.n = 8 THEN [ok |-> TRUE, pos |-> head.pos, val |-> IpV6(head.groups)]
    ELSE IF head.ipv4 THEN NoAddr
    ELSE IF ~(read_given_char(s, head.pos, 58) /\ read_given_char(s, head.pos + 1, 58))
         THEN NoAddr
    ELSE GroupsAround(head, read_groups(s, head.pos + 2, 0, 8 - (head.n + 1), <<>>))

\* Parser::read_ipv6_addr
read_ipv6_addr(s, pos) == AfterHead(s, read_groups(s, pos, 0, 8, <<>>))

\* read_ip_addr after read_ipv4_addr: `.or_else(move || self.read_ipv6_addr())`
V4OrV6(s, pos, v4) ==
    IF v4.ok
    THEN [ok |-> TRUE, pos |-> v4.pos, val |-> IpV4(v4.val[1], v4.val[2], v4.val[3], v4.val[4])]
    ELSE read_ipv6_addr(s, pos)

\* Parser::read_ip_addr
read_ip_addr(s, pos) == V4OrV6(s, pos, read_ipv4_addr(s, pos))

\* Parser::read_port: ':' and a u16
read_port(s, pos) ==
    IF read_given_char(s, pos, 58) THEN read_number(s, pos + 1, 10, 0, TRUE, 65535)
    ELSE NoNumber

U32MaxDigits == <<52, 50, 57, 52, 57, 54, 55, 50, 57, 53>>   \* "4294967295"

StripZeros(d) == TrimStartOf(d, {48})

\* Parser::read_scope_id: '%' and a u32, whose value is not used here; the
\* position after it, or pos when there is no scope id
AfterScopeId(s, pos) ==
    LET Fits(n, d) ==
            IF n = 0 THEN pos
            ELSE IF Len(d) > 10 THEN pos
            ELSE IF Len(d) = 10 /\ SliceCmp(d, U32MaxDigits) = "Greater" THEN pos
            ELSE pos + 1 + n
        Digits(n) == Fits(n, StripZeros(SubSeq(s, pos + 1, pos + n)))
    IN IF ~read_given_char(s, pos, 37) THEN pos ELSE Digits(CountDigits(s, pos + 1, 10))

\* Parser::read_socket_addr_v4: the address of the socket read
read_socket_addr_v4(s, pos) ==
    LET Socket(ip, port) ==
            IF port.ok
            THEN [ok |-> TRUE, pos |-> port.pos,
                  val |-> IpV4(ip.val[1], ip.val[2], ip.val[3], ip.val[4])]
            ELSE NoAddr
        Port(ip) == IF ip.ok THEN Socket(ip, read_port(s, ip.pos)) ELSE NoAddr
    IN Port(read_ipv4_addr(s, pos))

\* Parser::read_socket_addr_v6: the address of the socket read
read_socket_addr_v6(s, pos) ==
    LET Socket(ip, port) ==
            IF port.ok THEN [ok |-> TRUE, pos |-> port.pos, val |-> ip.val] ELSE NoAddr
        Close(ip, close) ==
            IF read_given_char(s, close, 93) THEN Socket(ip, read_port(s, close + 1))
            ELSE NoAddr
        Scope(ip) == IF ip.ok THEN Close(ip, AfterScopeId(s, ip.pos)) ELSE NoAddr
    IN IF read_given_char(s, pos, 91) THEN Scope(read_ipv6_addr(s, pos + 1)) ELSE NoAddr

\* Parser::parse_with: the result counts when the whole text was read
WholeText(s, r) == IF r.ok /\ r.pos = Len(s) + 1 THEN Some(r.val) ELSE None

\* s.parse::<IpAddr>().ok()
ParseIpAddr(s) == WholeText(s, read_ip_addr(s, 1))

\* s.parse::<SocketAddr>().ok().map(|addr| addr.ip())
ParseSocketAddrIp(s) ==
    LET Or(v4) == IF v4.ok THEN v4 ELSE read_socket_addr_v6(s, 1) IN
    WholeText(s, Or(read_socket_addr_v4(s, 1)))

-----------------------------------------------------------------------------
(* geo-mapper: text helpers of parse_rows *)

\* str::split(c): the pieces of s between the occurrences of c
split(s, c) ==
    LET at == { i \in 1..Len(s) : s[i] = c }
        n == Cardinality(at)
        \* position of the k-th occurrence; 0 and Len(s) + 1 bound the text
        nth(k) == IF k = 0 THEN 0
                  ELSE IF k = n + 1 THEN Len(s) + 1
                  ELSE CHOOSE i \in at : Cardinality({ j \in at : j < i }) = k - 1
    IN [k \in 1..(n + 1) |-> SubSeq(s, nth(k - 1) + 1, nth(k) - 1)]

StripCr(line) ==
    IF line # <<>> /\ line[Len(line)] = 13 THEN SubSeq(line, 1, Len(line) - 1) ELSE line

\* str::lines(): split after each '\n'; a line loses its "\n" or "\r\n", a
\* last line without line ending is kept as it is, an empty rest is no line
lines(s) ==
    LET pieces == split(s, 10)
        n == Len(pieces)
    IN [i \in 1..(IF pieces[n] = <<>> THEN n - 1 ELSE n) |->
            IF i < n THEN StripCr(pieces[i]) ELSE pieces[i]]

\* str::trim_start_matches(c)
trim_start_matches(s, c) == TrimStartOf(s, {c})

\* fn GeoBucket::from_label(value: &str) -> Option<Self>
from_label(value) ==
    LET normalized == to_ascii_uppercase(trim_start_matches(trim(value), 64)) IN
    CASE normalized = UNKNOWN_GEO -> Some("Unknown")
      [] normalized = LabelEU -> Some("Eu")
      [] normalized = LabelNA -> Some("Na")
      [] normalized = LabelAPAC -> Some("Apac")
      [] normalized = LabelME -> Some("Me")
      [] OTHER -> None

\* fn decode_pubkey(pubkey: &str) -> Result<[u8; 32], _>
decode_pubkey(pubkey) ==
    LET Sized(decoded) ==
            IF ~decoded.ok THEN [ok |-> FALSE, key |-> <<>>]
            ELSE IF Len(decoded.bytes) # 32 THEN [ok |-> FALSE, key |-> <<>>]
            ELSE [ok |-> TRUE, key |-> decoded.bytes]
    IN Sized(Bs58Decode(pubkey))

-----------------------------------------------------------------------------
(* geo-mapper: fn parse_rows *)

SkipLine == [kind |-> "skip", row |-> <<>>, msg |-> ""]
RowLine(pubkey, geo_source) ==
    [kind |-> "row", row |-> <<[pubkey |-> pubkey, geo_source |-> geo_source]>>, msg |-> ""]
ErrLine(msg) == [kind |-> "err", row |-> <<>>, msg |-> msg]

\* the body of `for (idx, raw_line) in input.lines().enumerate()`: the line
\* is passed over (continue), gives a row (rows.push) or ends parse_rows
\* with an Err
parse_line(raw_line) ==
    LET Source(pubkey, ip, bucket) ==
            IF ~pubkey.ok THEN ErrLine("invalid pubkey")
            ELSE IF ip # None THEN RowLine(pubkey.key, IpSource(ip[1]))
            ELSE IF bucket # None THEN RowLine(pubkey.key, BucketSource(bucket[1]))
            ELSE ErrLine("geo source must be an IP or one of UNKNOWN|EU|NA|APAC|ME")
        Columns(pubkey_str, source_str) ==
            Source(decode_pubkey(pubkey_str), ParseIpAddr(source_str), from_label(source_str))
        Parts(parts) ==
            IF Len(parts) < 2 THEN ErrLine("missing geo source")
            ELSE IF Len(parts) > 2 THEN ErrLine("expected exactly two comma-separated columns")
            ELSE Columns(trim(parts[1]), trim(parts[2]))
        Line(line) ==
            IF line = <<>> \/ Head(line) = 35 THEN SkipLine ELSE Parts(split(line, 44))
    IN Line(trim(raw_line))

\* Result<Vec<InputRow>, _>
OkRows(rs) == [ok |-> TRUE, rows |-> rs, line |-> 0, msg |-> ""]
ErrAt(line, msg) == [ok |-> FALSE, rows |-> <<>>, line |-> line, msg |-> msg]

\* lines of the override file
LineEu == IdKeyA \o <<44, 69, 85>>                         \* "<KeyA>,EU"
LineIp == IdKeyB \o <<44, 56, 46, 56, 46, 56, 46, 56>>     \* "<KeyB>,8.8.8.8"
LineApac == <<32>> \o IdKeyD \o <<32, 44, 32, 64, 97, 112, 97, 99, 32>>  \* " <KeyD> , @apac "
LineBlank == <<32, 9>>                                     \* " \t"
LineComment == <<35, 32, 69, 85>>                          \* "# EU"
LineBadChar == IdBadChar \o <<44, 69, 85>>                 \* "invalid,EU"
LineShortKey == IdShort \o <<44, 69, 85>>                  \* "2g,EU"
LineBadSource == IdKeyA \o <<44, 88, 88>>                  \* "<KeyA>,XX"
LineThreeColumns == IdKeyA \o <<44, 69, 85, 44, 78, 65>>   \* "<KeyA>,EU,NA"
LineOneColumn == IdKeyB                                    \* "<KeyB>"

LinePool ==
    { LineEu, LineIp, LineApac, LineBlank, LineComment, LineBadChar,
      LineShortKey, LineBadSource, LineThreeColumns, LineOneColumn }

\* the lines joined, each followed by the line ending eol
RECURSIVE JoinLines(_, _)
JoinLines(ls, eol) ==
    IF ls = <<>> THEN <<>> ELSE Head(ls) \o eol \o JoinLines(Tail(ls), eol)

\* files with "\n" line endings and no ending after the last line, and
\* files with "\r\n" line endings
InputPool ==
    { LET t == JoinLines(ls, <<10>>) IN SubSeq(t, 1, Len(t) - 1) :
        ls \in SeqsUpTo(LinePool, MaxLines) \ {<<>>} }
    \cup { JoinLines(ls, <<13, 10>>) : ls \in SeqsUpTo(LinePool, MaxLines) }

ParseInit ==
    /\ input \in InputPool
    /\ ppc = "lines"
    /\ lineIdx = 0
    /\ parsed = <<>>
    /\ pret = None
    /\ GenIdle /\ LookIdle /\ DetIdle /\ NodesIdle /\ ClassIdle /\ RegionIdle /\ SchedIdle /\ RunIdle

\* one iteration of the loop over the lines
ParseLine ==
    LET Step(r) ==
            IF r.kind = "err"
            THEN /\ ppc' = "err"
                 /\ pret' = Some(ErrAt(lineIdx + 1, r.msg))
                 /\ UNCHANGED <<lineIdx, parsed>>
            ELSE /\ parsed' = parsed \o r.row
                 /\ lineIdx' = lineIdx + 1
                 /\ UNCHANGED <<ppc, pret>>
        Lines(ls) == lineIdx < Len(ls) /\ Step(parse_line(ls[lineIdx + 1]))
    IN /\ ppc = "lines"
       /\ Lines(lines(input))
       /\ UNCHANGED input
       /\ UNCHANGED notParse

\* Ok(rows)
ParseReturn ==
    /\ ppc = "lines"
    /\ lineIdx = Len(lines(input))
    /\ ppc' = "ok"
    /\ pret' = Some(OkRows(parsed))
    /\ UNCHANGED <<input, lineIdx, parsed>>
    /\ UNCHANGED notParse

ParseNext == ParseLine \/ ParseReturn

SpecParse == ParseInit /\ [][ParseNext]_vars

-----------------------------------------------------------------------------
(* geo-mapper: fn parse_cluster_nodes_response, on the serde_json::Value the *)
(* body parsed to.  A member of an object is [kind, str]: kind "absent" when *)
(* the object has no such member, else the kind of its value.               *)

JAbsent == [kind |-> "absent", str |-> <<>>]
JNull == [kind |-> "null", str |-> <<>>]
JNumber == [kind |-> "number", str |-> <<>>]
JString(s) == [kind |-> "string", str |-> s]

\* node.get(key).and_then(Value::as_str)
as_str(member) == IF member.kind = "string" THEN Some(member.str) ELSE None

\* 1-based position of the first c in s, 0 when there is none: str::find
find(s, c) ==
    IF \E i \in 1..Len(s) : s[i] = c
    THEN CHOOSE i \in 1..Len(s) : s[i] = c /\ \A j \in 1..(i - 1) : s[j] # c
    ELSE 0

\* 1-based position of the last c in s, 0 when there is none: str::rsplit_once
rfind(s, c) ==
    IF \E i \in 1..Len(s) : s[i] = c
    THEN CHOOSE i \in 1..Len(s) : s[i] = c /\ \A j \in (i + 1)..Len(s) : s[j] # c
    ELSE 0

\* fn extract_ip_from_socket(socket: &str) -> Option<IpAddr>
extract_ip_from_socket(socket) ==
    LET Host(colon) ==
            IF colon # 0 THEN ParseIpAddr(SubSeq(socket, 1, colon - 1)) ELSE None
        Bracket(end) ==
            IF socket # <<>> /\ Head(socket) = 91 /\ end # 0
            THEN ParseIpAddr(SubSeq(socket, 2, end - 1))
            ELSE Host(rfind(socket, 58))
        Ip(ip) == IF ip # None THEN ip ELSE Bracket(find(socket, 93))
        Socket(addr) == IF addr # None THEN addr ELSE Ip(ParseIpAddr(socket))
    IN Socket(ParseSocketAddrIp(socket))

\* for key in ["tpu_quic", "tpu", "gossip", "rpc"]
TransportKeys == <<"tpu_quic", "tpu", "gossip", "rpc">>

\* the socket under the key, read as an address
IpOfMember(node, key) ==
    LET Socket(socket) == IF socket = None THEN None ELSE extract_ip_from_socket(socket[1])
    IN Socket(as_str(node[key]))

\* mutant: the first transport that is a string decides
preferred_ip_from_nodeFirstString(node) ==
    IF \E i \in 1..Len(TransportKeys) : as_str(node[TransportKeys[i]]) # None
    THEN LET i == CHOOSE i \in 1..Len(TransportKeys) :
                      /\ as_str(node[TransportKeys[i]]) # None
                      /\ \A j \in 1..(i - 1) : as_str(node[TransportKeys[j]]) = None
         IN IpOfMember(node, TransportKeys[i])
    ELSE None

\* the loop of preferred_ip_from_node from key number i on
RECURSIVE PreferredFrom(_, _)
PreferredFrom(node, i) ==
    LET Found(ip) == IF ip # None THEN ip ELSE PreferredFrom(node, i + 1) IN
    IF i > Len(TransportKeys) THEN None
    ELSE Found(IpOfMember(node, TransportKeys[i]))

\* fn preferred_ip_from_node(node: &Value) -> Option<IpAddr>
preferred_ip_from_node(node) == PreferredFrom(node, 1)

\* the body of `for node in result`: the rows the node adds, none or one
node_rows(node) ==
    LET Row(key, ip) ==
            IF ip = None THEN <<>>
            ELSE <<[pubkey |-> key, geo_source |-> IpSource(ip[1])]>>
        Decoded(decoded) ==
            IF ~decoded.ok THEN <<>> ELSE Row(decoded.key, preferred_ip_from_node(node))
        Pubkey(pubkey) ==
            IF pubkey = None THEN <<>> ELSE Decoded(decode_pubkey(pubkey[1]))
    IN Pubkey(as_str(node.pubkey))

\* socket strings
Sock1234 == <<49, 46, 50, 46, 51, 46, 52, 58, 56, 48, 48, 49>>        \* "1.2.3.4:8001"
Sock5678 == <<53, 46, 54, 46, 55, 46, 56, 58, 56, 48, 48, 49>>        \* "5.6.7.8:8001"
Sock9999 == <<57, 46, 57, 46, 57, 46, 57>>                            \* "9.9.9.9"
SockV6 == <<91, 50, 48, 48, 49, 58, 100, 98, 56, 58, 58, 49, 93, 58, 56, 48, 48, 49>>  \* "[2001:db8::1]:8001"
SockBracket == <<91, 58, 58, 49, 93>>                                 \* "[::1]"
SockBigPort == <<49, 48, 46, 48, 46, 48, 46, 49, 58, 57, 57, 57, 57, 57>>  \* "10.0.0.1:99999"
SockName == <<110, 111, 116, 45, 97, 110, 45, 105, 112>>              \* "not-an-ip"
SockHost == <<104, 111, 115, 116, 58, 56, 48>>                        \* "host:80"

Node(pubkey, tpu_quic, tpu, gossip, rpc) ==
    [pubkey |-> pubkey, tpu_quic |-> tpu_quic, tpu |-> tpu, gossip |-> gossip, rpc |-> rpc]

NodeAll == Node(JString(IdKeyA), JString(Sock1234), JString(Sock5678), JString(Sock9999), JString(SockBigPort))
NodeTpuV6 == Node(JString(IdKeyB), JNull, JString(SockV6), JNull, JNull)
NodeBadKey == Node(JString(IdBadChar), JString(Sock1234), JAbsent, JAbsent, JAbsent)
NodeShortKey == Node(JString(IdShort), JString(Sock5678), JAbsent, JAbsent, JAbsent)
NodeNullKey == Node(JNull, JString(Sock1234), JAbsent, JAbsent, JAbsent)
NodeNoKey == Node(JAbsent, JAbsent, JString(Sock5678), JAbsent, JAbsent)
NodeGossip == Node(JString(IdKeyA), JString(SockName), JAbsent, JString(Sock9999), JString(Sock5678))
NodeRpcOnly == Node(JString(IdKeyB), JNumber, JString(SockHost), JNull, JString(SockBigPort))
NodeBracket == Node(JString(IdKeyA), JAbsent, JString(SockBracket), JString(Sock1234), JAbsent)
NodeNoAddress == Node(JString(IdKeyB), JString(SockName), JNull, JNumber, JString(SockHost))

NodePool ==
    { NodeAll, NodeTpuV6, NodeBadKey, NodeShortKey, NodeNullKey, NodeNoKey,
      NodeGossip, NodeRpcOnly, NodeBracket, NodeNoAddress }

\* the payload: its "error" member and its "result" member, with the
\* elements of the result when it is an array
Payload(error, kind, items) == [error |-> error, result |-> [kind |-> kind, items |-> items]]

PayloadPool ==
    { Payload(e, "array", ns) : e \in {JAbsent, JNull}, ns \in SeqsUpTo(NodePool, MaxNodes) }
    \cup { Payload(e, k, <<>>) : e \in {JAbsent, JString(SockName)}, k \in {"absent", "null"} }

NodesInit ==
    /\ payload \in PayloadPool
    /\ npc = "start"
    /\ nodeIdx = 1
    /\ nodeRows = <<>>
    /\ nodeErr = "none"
    /\ GenIdle /\ LookIdle /\ DetIdle /\ ParseIdle /\ ClassIdle /\ RegionIdle /\ SchedIdle /\ RunIdle

\* payload.get("error") is Some: Err("RPC getClusterNodes error: ..")
RpcError ==
    /\ npc = "start"
    /\ payload.error.kind # "absent"
    /\ npc' = "err"
    /\ nodeErr' = "rpc error"
    /\ UNCHANGED <<payload, nodeIdx, nodeRows>>
    /\ UNCHANGED notNodes

\* payload.get("result").and_then(Value::as_array) is None: Err(InvalidData)
MissingResult ==
    /\ npc = "start"
    /\ payload.error.kind = "absent"
    /\ payload.result.kind # "array"
    /\ npc' = "err"
    /\ nodeErr' = "missing result array"
    /\ UNCHANGED <<payload, nodeIdx, nodeRows>>
    /\ UNCHANGED notNodes

\* let mut rows = Vec::new()
EnterNodes ==
    /\ npc = "start"
    /\ payload.error.kind = "absent"
    /\ payload.result.kind = "array"
    /\ npc' = "nodes"
    /\ UNCHANGED <<payload, nodeIdx, nodeRows, nodeErr>>
    /\ UNCHANGED notNodes

\* one iteration of `for node in result`
VisitNode ==
    /\ npc = "nodes"
    /\ nodeIdx <= Len(payload.result.items)
    /\ nodeRows' = nodeRows \o node_rows(payload.result.items[nodeIdx])
    /\ nodeIdx' = nodeIdx + 1
    /\ UNCHANGED <<payload, npc, nodeErr>>
    /\ UNCHANGED notNodes

\* Ok(rows)
ReturnRows ==
    /\ npc = "nodes"
    /\ nodeIdx > Len(payload.result.items)
    /\ npc' = "ok"
    /\ UNCHANGED <<payload, nodeIdx, nodeRows, nodeErr>>
    /\ UNCHANGED notNodes

NodesNext == RpcError \/ MissingResult \/ EnterNodes \/ VisitNode \/ ReturnRows

SpecNodes == NodesInit /\ [][NodesNext]_vars

-----------------------------------------------------------------------------
(* geo-rules: the classifiers, beside GeoBucket::from_label (geo-mapper) and *)
(* region_from_geo (procedure), all called on one text                      *)

\* mutant: the code is matched as given, without trim
bucket_from_country_isoUntrimmed(iso_code) == country_to_bucket(iso_code)

\* fn bucket_from_country_iso(iso_code: &str) -> GeoBucket
bucket_from_country_iso(iso_code) ==
    LET code == to_ascii_uppercase(trim(iso_code)) IN
    IF code \in EuCodes THEN "Eu"
    ELSE IF code \in MeCodes THEN "Me"
    ELSE IF code \in NaCodes THEN "Na"
    ELSE IF code \in ApacCodes THEN "Apac"
    ELSE "Unknown"

\* fn bucket_from_geo_input(input: &str) -> GeoBucket
bucket_from_geo_input(geo_input) ==
    LET normalized == to_ascii_uppercase(trim(geo_input)) IN
    CASE normalized = LabelEU -> "Eu"
      [] normalized = LabelNA -> "Na"
      [] normalized = LabelAPAC -> "Apac"
      [] normalized = LabelME -> "Me"
      [] OTHER -> bucket_from_country_iso(normalized)

\* fn region_from_bucket(bucket: GeoBucket) -> Option<Region>
region_from_bucket(bucket) ==
    CASE bucket = "Eu" -> Some("Frankfurt")
      [] bucket = "Me" -> Some("Dubai")
      [] bucket = "Na" -> Some("NewYork")
      [] bucket = "Apac" -> Some("Tokyo")
      [] bucket = "Unknown" -> None

\* fn region_from_geo_input(input: &str) -> Option<Region>
region_from_geo_input(geo_input) == region_from_bucket(bucket_from_geo_input(geo_input))

\* the texts classified: a label, a country code or something else, in upper,
\* lower and mixed case, behind whitespace and '@' and before whitespace
AsciiLowerByte(c) == IF c >= 65 /\ c <= 90 THEN c + 32 ELSE c
Lower(s) == [i \in 1..Len(s) |-> AsciiLowerByte(s[i])]
Mixed(s) == [i \in 1..Len(s) |-> IF i % 2 = 1 THEN AsciiLowerByte(s[i]) ELSE s[i]]

TextCores ==
    EuCodes \cup MeCodes \cup NaCodes \cup ApacCodes
    \cup { UNKNOWN_GEO, LabelEU, LabelNA, LabelAPAC, LabelME }
    \cup { <<>>, <<66, 82>>, <<90, 90>>, <<69, 85, 82>>, <<69, 32, 85>>, <<69, 64, 85>> }
                                         \* "" BR ZZ EUR "E U" "E@U"

TextCased == TextCores \cup { Lower(s) : s \in TextCores } \cup { Mixed(s) : s \in TextCores }

Pad(n) == SubSeq(<<32, 9, 10, 13, 12, 11>>, 1, n)

TextPool ==
    { Pad(a) \o Repeat(64, k) \o Pad(b) \o core \o Pad(c) :
        a \in 0..MaxPad, k \in 0..MaxAts, b \in 0..MaxPad, c \in 0..MaxPad,
        core \in TextCased }

ClassInit ==
    /\ text \in TextPool
    /\ labelRet = None
    /\ isoRet = None
    /\ inputRet = None
    /\ geoRet = None
    /\ geoInputRet = None
    /\ GenIdle /\ LookIdle /\ DetIdle /\ ParseIdle /\ NodesIdle /\ RegionIdle /\ SchedIdle /\ RunIdle

\* GeoBucket::from_label(text)
CallFromLabel ==
    /\ labelRet = None
    /\ labelRet' = Some(from_label(text))
    /\ UNCHANGED <<text, isoRet, inputRet, geoRet, geoInputRet>>
    /\ UNCHANGED notClass

\* bucket_from_country_iso(text)
CallBucketFromCountryIso ==
    /\ isoRet = None
    /\ isoRet' = Some(bucket_from_country_iso(text))
    /\ UNCHANGED <<text, labelRet, inputRet, geoRet, geoInputRet>>
    /\ UNCHANGED notClass

\* bucket_from_geo_input(text)
CallBucketFromGeoInput ==
    /\ inputRet = None
    /\ inputRet' = Some(bucket_from_geo_input(text))
    /\ UNCHANGED <<text, labelRet, isoRet, geoRet, geoInputRet>>
    /\ UNCHANGED notClass

\* procedure's region_from_geo(text)
CallRegionFromGeo ==
    /\ geoRet = None
    /\ geoRet' = Some(region_from_geo(text))
    /\ UNCHANGED <<text, labelRet, isoRet, inputRet, geoInputRet>>
    /\ UNCHANGED notClass

\* region_from_geo_input(text)
CallRegionFromGeoInput ==
    /\ geoInputRet = None
    /\ geoInputRet' = Some(region_from_geo_input(text))
    /\ UNCHANGED <<text, labelRet, isoRet, inputRet, geoRet>>
    /\ UNCHANGED notClass

ClassNext ==
    \/ CallFromLabel
    \/ CallBucketFromCountryIso
    \/ CallBucketFromGeoInput
    \/ CallRegionFromGeo
    \/ CallRegionFromGeoInput

SpecClassify == ClassInit /\ [][ClassNext]_vars

-----------------------------------------------------------------------------
(* procedure: fallback_region and choose_region, called on one pair of *)
(* arguments any number of times                                        *)

\* identifiers: every byte string of up to MaxIdLen bytes over IdBytes, four
\* named ones and the leader identifiers of the query path
IdBytes == {0, 45, 49, 97, 122, 127}

IdFoobar == <<102, 111, 111, 98, 97, 114>>                               \* "foobar"
IdValidatorX == <<118, 97, 108, 105, 100, 97, 116, 111, 114, 45, 120>>   \* "validator-x"
IdAnything == <<97, 110, 121, 116, 104, 105, 110, 103>>                  \* "anything"

IdPool ==
    SeqsUpTo(IdBytes, MaxIdLen) \cup {IdFoobar, IdValidatorX, IdAnything} \cup LeaderPool

\* leader_geo texts: the labels derive_leader_geo_and_region passes, and others
GeoPool ==
    { UNKNOWN_GEO, LabelEU, LabelNA, LabelAPAC, LabelME,
      Lower(LabelNA), <<32>> \o Lower(LabelAPAC) \o <<32>>, <<68, 69>>, <<117, 115>>,
      <<90, 90>>, <<>>, <<64>> \o LabelEU }          \* "na" " apac " "DE" "us" "ZZ" "" "@EU"

RegionInit ==
    /\ geo \in GeoPool
    /\ identifier \in IdPool
    /\ fallbackRets = <<>>
    /\ chooseRets = <<>>
    /\ GenIdle /\ LookIdle /\ DetIdle /\ ParseIdle /\ NodesIdle /\ ClassIdle /\ SchedIdle /\ RunIdle

\* fallback_region(identifier)
CallFallbackRegion ==
    /\ Len(fallbackRets) < MaxCalls
    /\ fallbackRets' = Append(fallbackRets, fallback_region(identifier))
    /\ UNCHANGED <<geo, identifier, chooseRets>>
    /\ UNCHANGED notRegion

\* choose_region(geo, identifier)
CallChooseRegion ==
    /\ Len(chooseRets) < MaxCalls
    /\ chooseRets' = Append(chooseRets, choose_region(geo, identifier))
    /\ UNCHANGED <<geo, identifier, fallbackRets>>
    /\ UNCHANGED notRegion

RegionNext == CallFallbackRegion \/ CallChooseRegion

SpecRegion == RegionInit /\ [][RegionNext]_vars

-----------------------------------------------------------------------------
(* procedure: fn find_leader_for_slot_index *)

\* leaders of a schedule: "B" "a" "aa" "b" "validator-a" "validator-z"
ValidatorA == <<118, 97, 108, 105, 100, 97, 116, 111, 114, 45, 97>>
ValidatorZ == <<118, 97, 108, 105, 100, 97, 116, 111, 114, 45, 122>>
SchedLeaders == { <<66>>, <<97>>, <<97, 97>>, <<98>>, ValidatorA, ValidatorZ }

\* slot lists of a leader; no list holds slot 2
SlotLists == { <<>>, <<0>>, <<1>>, <<1, 0>>, <<0, 0>> }
SlotIndexes == {0, 1, 2}

SchedulePool ==
    UNION { [S -> SlotLists] :
              S \in { T \in SUBSET SchedLeaders : Cardinality(T) <= MaxLeaders } }

\* <[usize]>::contains
contains(slots, x) == \E i \in 1..Len(slots) : slots[i] = x

\* mutant: the first leader found is kept
MinStepFirst(acc, candidate) == IF acc = None THEN Some(candidate) ELSE acc

\* one step of Iterator::min over &str: the smaller of the accumulator and
\* the next item, the accumulator when they are equal
MinStep(acc, candidate) ==
    IF acc = None THEN Some(candidate)
    ELSE IF SliceCmp(candidate, acc[1]) = "Less" THEN Some(candidate)
    ELSE acc

SchedInit ==
    /\ leader_schedule \in SchedulePool
    /\ slot_index \in SlotIndexes
    /\ spc = "iter"
    /\ visited = {}
    /\ best = None
    /\ leaderRet = None
    /\ GenIdle /\ LookIdle /\ DetIdle /\ ParseIdle /\ NodesIdle /\ ClassIdle /\ RegionIdle /\ RunIdle

\* the iterator yields an entry, any that it has not yielded (the order of a
\* HashMap is arbitrary); filter_map passes the leader on when its slots
\* contain slot_index, and min() takes it in
VisitEntry ==
    /\ spc = "iter"
    /\ \E entry \in (DOMAIN leader_schedule) \ visited :
         /\ visited' = visited \cup {entry}
         /\ best' = IF contains(leader_schedule[entry], slot_index)
                    THEN MinStep(best, entry)
                    ELSE best
    /\ UNCHANGED <<leader_schedule, slot_index, spc, leaderRet>>
    /\ UNCHANGED notSched

\* the iterator is exhausted: .min().map(ToString::to_string) is returned
ReturnLeader ==
    /\ spc = "iter"
    /\ visited = DOMAIN leader_schedule
    /\ leaderRet' = best
    /\ spc' = "done"
    /\ UNCHANGED <<leader_schedule, slot_index, visited, best>>
    /\ UNCHANGED notSched

SchedNext == VisitEntry \/ ReturnLeader

SpecSched == SchedInit /\ [][SchedNext]_vars

-----------------------------------------------------------------------------
(* procedure: LeaderRoutingProcedure::run.  The RPC node, and the epoch      *)
(* arithmetic of its EpochSchedule, are outside the repository: each answer *)
(* is any value of its type.  Of an error's details only the fixed text is  *)
(* kept, not the values formatted into it.                                   *)

\* mutant: the stage is not recorded
internal_errorUnstaged(stage, details) ==
    [ok |-> FALSE, code |-> ERROR_CODE_INTERNAL,
     message |-> "leader routing procedure failed",
     data |-> Some([stage |-> "internal", details |-> details])]

\* fn internal_error(stage, details) -> RpcError<ProcedureErrorData>
internal_error(stage, details) ==
    [ok |-> FALSE, code |-> ERROR_CODE_INTERNAL,
     message |-> "leader routing procedure failed",
     data |-> Some([stage |-> stage, details |-> details])]

\* fn find_leader_for_slot_index: the minimum of the leaders that pass the
\* filter, which is the same in whatever order they are yielded
find_leader_for_slot_index(schedule, at) ==
    LET holders == { l \in DOMAIN schedule : contains(schedule[l], at) } IN
    IF holders = {} THEN None
    ELSE Some(CHOOSE l \in holders : \A m \in holders : SliceCmp(l, m) # "Greater")

\* u64::saturating_sub
saturating_sub(a, b) == IF a >= b THEN a - b ELSE 0

\* leader schedules an RPC node answers: two leaders the maps know, one they
\* cannot know; slot lists with and without the first slots of the epoch
RunLeaders == { IdKeyA, IdKeyD, ValidatorA }
RunSlotLists == { <<>>, <<0>>, <<1, 0>> }
RunSchedulePool == UNION { [S -> RunSlotLists] : S \in SUBSET RunLeaders }

\* blobs compiled in: a map of two records, a misaligned file
RunBlobPool == { KeyA \o <<1>> \o KeyD \o <<4>>, KeyA \o <<1>> \o <<1, 2, 3>> }

RunInit ==
    /\ bin \in RunBlobPool
    /\ usizeMax \in {NarrowUsizeMax, MaxSlot}
    /\ rpos = "get_slot"
    /\ stages = <<>>
    /\ slot = None
    /\ first_slot_in_epoch = None
    /\ fetched = None
    /\ indexInEpoch = None
    /\ routed = None
    /\ ret = None
    /\ GenIdle /\ LookIdle /\ DetIdle /\ ParseIdle /\ NodesIdle /\ ClassIdle /\ RegionIdle /\ SchedIdle

\* a `?` on an Err: run returns it
Return(result) ==
    /\ ret' = Some(result)
    /\ rpos' = "done"

\* lines 47-49: rpc.get_slot().await
GetSlot ==
    /\ rpos = "get_slot"
    /\ stages' = Append(stages, "get_slot")
    /\ \/ /\ Return(internal_error("get_slot", "failed to fetch current slot"))
          /\ UNCHANGED slot
       \/ /\ \E s \in 0..MaxSlot : slot' = Some(s)
          /\ rpos' = "get_epoch_schedule"
          /\ UNCHANGED ret
    /\ UNCHANGED <<bin, usizeMax, first_slot_in_epoch, fetched, indexInEpoch, routed>>
    /\ UNCHANGED notRun

\* lines 51-56: rpc.get_epoch_schedule().await; of the schedule the model
\* keeps what lines 72-73 read from it, the first slot of the epoch of slot
GetEpochSchedule ==
    /\ rpos = "get_epoch_schedule"
    /\ stages' = Append(stages, "get_epoch_schedule")
    /\ \/ /\ Return(internal_error("get_epoch_schedule", "failed to fetch epoch schedule"))
          /\ UNCHANGED first_slot_in_epoch
       \/ /\ \E f \in 0..MaxSlot : first_slot_in_epoch' = Some(f)
          /\ rpos' = "get_leader_schedule"
          /\ UNCHANGED ret
    /\ UNCHANGED <<bin, usizeMax, slot, fetched, indexInEpoch, routed>>
    /\ UNCHANGED notRun

\* lines 58-70: rpc.get_leader_schedule(Some(slot)).await, an Err or an
\* Option, and the ok_or_else on the Option
GetLeaderSchedule ==
    /\ rpos = "get_leader_schedule"
    /\ stages' = Append(stages, "get_leader_schedule")
    /\ \/ /\ fetched' = Some([kind |-> "Err", schedule |-> <<>>])
          /\ Return(internal_error("get_leader_schedule", "failed to fetch leader schedule for slot"))
       \/ /\ fetched' = Some([kind |-> "None", schedule |-> <<>>])
          /\ Return(internal_error("get_leader_schedule", "leader schedule was missing for slot"))
       \/ /\ \E answer \in RunSchedulePool :
                fetched' = Some([kind |-> "Some", schedule |-> answer])
          /\ rpos' = "slot_index"
          /\ UNCHANGED ret
    /\ UNCHANGED <<bin, usizeMax, slot, first_slot_in_epoch, indexInEpoch, routed>>
    /\ UNCHANGED notRun

\* lines 72-82: usize::try_from(slot.saturating_sub(first_slot_in_epoch)),
\* which fails when the difference is above usize::MAX
SlotIndex ==
    /\ rpos = "slot_index"
    /\ stages' = Append(stages, "slot_index")
    /\ IF saturating_sub(slot[1], first_slot_in_epoch[1]) > usizeMax
       THEN /\ Return(internal_error("slot_index", "failed to compute slot index in epoch"))
            /\ UNCHANGED indexInEpoch
       ELSE /\ indexInEpoch' = Some(saturating_sub(slot[1], first_slot_in_epoch[1]))
            /\ rpos' = "resolve_leader"
            /\ UNCHANGED ret
    /\ UNCHANGED <<bin, usizeMax, slot, first_slot_in_epoch, fetched, routed>>
    /\ UNCHANGED notRun

\* lines 84-91: find_leader_for_slot_index(..).ok_or_else(..)?
ResolveLeader ==
    /\ rpos = "resolve_leader"
    /\ stages' = Append(stages, "resolve_leader")
    /\ routed' = find_leader_for_slot_index(fetched[1].schedule, indexInEpoch[1])
    /\ IF routed' = None
       THEN Return(internal_error("resolve_leader", "no leader found in leader schedule for slot"))
       ELSE /\ rpos' = "derive"
            /\ UNCHANGED ret
    /\ UNCHANGED <<bin, usizeMax, slot, first_slot_in_epoch, fetched, indexInEpoch>>
    /\ UNCHANGED notRun

\* lines 93-106: derive_leader_geo_and_region and the Ok(LeaderRoutingOutput)
DeriveAndReturn ==
    /\ rpos = "derive"
    /\ stages' = Append(stages, "derive")
    /\ LET derived == derive_leader_geo_and_region(routed[1], bin) IN
       Return([ok |-> TRUE, slot |-> slot[1], leader |-> routed[1],
               leader_geo |-> derived.geo, closest_region |-> derived.region])
    /\ UNCHANGED <<bin, usizeMax, slot, first_slot_in_epoch, fetched, indexInEpoch, routed>>
    /\ UNCHANGED notRun

RunNext ==
    \/ GetSlot
    \/ GetEpochSchedule
    \/ GetLeaderSchedule
    \/ SlotIndex
    \/ ResolveLeader
    \/ DeriveAndReturn

SpecRun == RunInit /\ [][RunNext]_vars

-----------------------------------------------------------------------------
(* Properties of the generation run *)

\* the association a map holds, read off its entry list
InMap(m, k) == \E i \in 1..Len(m) : m[i].key = k
ValueOf(m, k) == m[CHOOSE i \in 1..Len(m) : m[i].key = k].value

\* unsigned lexicographic order on equal-length keys, stated positionally
LexLess(a, b) ==
    \E i \in 1..Len(a) :
        /\ a[i] < b[i]
        /\ \A j \in 1..(i - 1) : a[j] = b[j]

\* the bucket an input row resolves to when the backend answers
RowBucket(row) ==
    IF row.geo_source.kind = "Bucket" THEN row.geo_source.bucket
    ELSE compute_geolocation(row.geo_source.ip[1]).bucket

\* the backend fails on this row's address
RowBreaks(row) ==
    /\ row.geo_source.kind = "Ip"
    /\ ~GeoIpLookup(row.geo_source.ip[1]).ok

\* first non-Unknown bucket among the rows for k in rows[1..n], else Unknown
FirstKnown(k, n) ==
    LET S == { i \in 1..n : rows[i].pubkey = k /\ RowBucket(rows[i]) # "Unknown" } IN
    IF S = {} THEN "Unknown"
    ELSE RowBucket(rows[CHOOSE i \in S : \A j \in S : i <= j])

\* C1: Round trip: a lookup against the blob written from a map returns
\* exactly the stored bucket byte for every key of the map and None for
\* every key that is not in it.
C1_RoundTrip ==
    (pc = "done" /\ looked # None) =>
        LET q == looked[1] IN
        IF InMap(map, q.key)
        THEN q.res = Some(as_u8(ValueOf(map, q.key)))
        ELSE q.res = None

C1_Witness ==
    /\ pc = "done"
    /\ Len(map) = 3
    /\ looked # None
    /\ looked[1].key = KeyD
    /\ looked[1].res = Some(3)

\* C4: Merge policy outcome: after the rows rows[1..idx-1] have been merged,
\* the map holds exactly the keys of those rows, each with the first
\* non-Unknown bucket among its rows in input order, or Unknown if all of
\* its rows resolved to Unknown; so the built map does for the whole input.
C4_MergeOutcome ==
    \A k \in AllKeys :
        IF \E i \in 1..(idx - 1) : rows[i].pubkey = k
        THEN InMap(map, k) /\ ValueOf(map, k) = FirstKnown(k, idx - 1)
        ELSE ~InMap(map, k)

C4_Witness ==
    /\ pc = "done"
    /\ Len(rows) = 2
    /\ rows[1] = [pubkey |-> KeyB, geo_source |-> BucketSource("Unknown")]
    /\ rows[2] = [pubkey |-> KeyB, geo_source |-> BucketSource("Eu")]
    /\ map = <<[key |-> KeyB, value |-> "Eu"]>>

\* C5: Throughout a run a key in the map stays in the map, a non-Unknown
\* bucket is never changed by a later row, and the only change made to an
\* existing entry is Unknown -> non-Unknown.
C5_Step ==
    \A k \in AllKeys :
        InMap(map, k) =>
            /\ InMap(map', k)
            /\ ValueOf(map, k) # "Unknown" => ValueOf(map', k) = ValueOf(map, k)
            /\ ValueOf(map', k) # ValueOf(map, k) =>
                   ValueOf(map, k) = "Unknown" /\ ValueOf(map', k) # "Unknown"

C5_KnownNeverChanges == [][C5_Step]_vars

\* a second row for a key whose bucket is Eu resolved to Apac and left it Eu
C5_Witness ==
    /\ idx = 3
    /\ rows[1] = [pubkey |-> KeyA, geo_source |-> BucketSource("Eu")]
    /\ rows[2] = [pubkey |-> KeyA, geo_source |-> IpSource(IpJp)]
    /\ ValueOf(map, KeyA) = "Eu"

\* C6: Every blob write_binary_map emits (the buffer it hands to fs::write,
\* which is the whole content of the output file once write_binary_map has
\* returned Ok) has length 33 x (number of distinct keys of the rows), each
\* record is a row's 32-byte key followed by a bucket byte in 0..4, and the
\* record keys are strictly increasing in unsigned lexicographic byte order.
\* A write_binary_map that returns Err emits no blob: the file it may leave
\* behind is a proper prefix of the buffer (see WriteMap) and the run fails.
BlobKey(blob, r) == SubSeq(blob, RECORD_SIZE * r + 1, RECORD_SIZE * r + PUBKEY_LEN)

C6_BlobShape ==
    \A w \in 1..Len(file) :
        LET blob == file[w]
            n == Cardinality({ rows[i].pubkey : i \in 1..Len(rows) })
        IN  /\ Len(blob) = RECORD_SIZE * n
            /\ \A r \in 0..(n - 1) :
                  /\ \E i \in 1..Len(rows) : BlobKey(blob, r) = rows[i].pubkey
                  /\ blob[RECORD_SIZE * r + PUBKEY_LEN + 1] \in 0..4
            /\ \A r \in 0..(n - 2) : LexLess(BlobKey(blob, r), BlobKey(blob, r + 1))
            /\ pc = "done" => disk = Some(blob)

\* three distinct keys arrived in descending order, one of them twice
C6_Witness ==
    /\ pc = "done"
    /\ Len(file) = 1
    /\ disk = Some(file[1])
    /\ Len(file[1]) = 3 * RECORD_SIZE
    /\ Len(rows) = 3
    /\ rows[1].pubkey = KeyD
    /\ rows[2].pubkey = KeyB
    /\ rows[3].pubkey = KeyA

\* C8: A backend failure while resolving a row ends the run with an error at
\* that row: no later row is resolved and write_binary_map is never invoked,
\* so the output file stays as the run found it; the output is written at
\* most once, and only after every row resolved.
C8_BackendFailureFatal ==
    /\ \A i \in 1..(idx - 1) : ~RowBreaks(rows[i])
    /\ err = "resolve" =>
          /\ pc = "failed"
          /\ idx <= Len(rows)
          /\ RowBreaks(rows[idx])
    /\ pc = "failed" => ~ENABLED GenNext
    /\ (\E i \in 1..Len(rows) : RowBreaks(rows[i])) => writeCalls = 0 /\ file = <<>>
    /\ writeCalls <= 1
    /\ Len(file) <= writeCalls
    /\ writeCalls = 0 => disk \in {None, Some(StaleFile)}
    /\ writeCalls = 1 => idx = Len(rows) + 1

C8_Witness ==
    /\ err = "resolve"
    /\ disk = Some(StaleFile)
    /\ pc = "failed"
    /\ Len(rows) = 3
    /\ idx = 2
    /\ Len(map) = 1

-----------------------------------------------------------------------------
(* Properties of the encoding of two runs *)

\* the key -> bucket association a map holds
Association(m) == { <<m[i].key, m[i].value>> : i \in 1..Len(m) }

\* C7: two maps holding the same key -> bucket association are encoded as the
\* same bytes, whatever the order their entries were inserted in, and a
\* second encoding of a map gives the bytes of the first.
C7_EncodingDeterministic ==
    /\ (fileA # None /\ fileB # None /\ Association(mapA) = Association(mapB))
          => fileA = fileB
    /\ fileA2 # None => fileA2 = fileA

\* both runs encoded the same two-key association, inserted in opposite key order
C7_Witness ==
    /\ dpc = "done"
    /\ Association(mapA) = Association(mapB)
    /\ Len(mapA) >= 2
    /\ Len(rowsA) >= 2 /\ Len(rowsB) >= 2
    /\ rowsA[1].pubkey = rowsB[2].pubkey
    /\ rowsA[2].pubkey = rowsB[1].pubkey
    /\ fileA = fileB /\ fileA2 = fileA

-----------------------------------------------------------------------------
(* Properties of parse_rows *)

\* what each line of LinePool is: no row and no error, a row, or a row that
\* fails structural validation
ExpectedLine(line) ==
    CASE line = LineEu -> RowLine(KeyA, BucketSource("Eu"))
      [] line = LineIp -> RowLine(KeyB, IpSource(IpV4(8, 8, 8, 8)))
      [] line = LineApac -> RowLine(KeyD, BucketSource("Apac"))
      [] line = LineBlank -> SkipLine
      [] line = LineComment -> SkipLine
      [] OTHER -> ErrLine("invalid")

\* the rows of the valid lines, in order
RECURSIVE ValidRows(_)
ValidRows(ls) ==
    IF ls = <<>> THEN <<>> ELSE ExpectedLine(Head(ls)).row \o ValidRows(Tail(ls))

HasInvalidLine(ls) == \E i \in 1..Len(ls) : ExpectedLine(ls[i]).kind = "err"

\* C9: a row that fails structural validation (key not 32 bytes of base58,
\* geo source neither an IP nor a label) is skipped and is no error: parse_rows
\* goes on and returns the rows of all the valid lines.
C9_InvalidRowsSkipped ==
    ppc \in {"ok", "err"} =>
        /\ pret # None
        /\ pret[1].ok
        /\ pret[1].rows = ValidRows(lines(input))

\* what parse_rows does instead: the first invalid line ends it with an Err
\* naming that line (1-based), and no rows are returned; rows are returned
\* only when no line is invalid
FirstInvalidRowIsFatal ==
    ppc \in {"ok", "err"} =>
        LET ls == lines(input) IN
        IF HasInvalidLine(ls)
        THEN /\ pret # None /\ ~pret[1].ok /\ pret[1].rows = <<>>
             /\ ExpectedLine(ls[pret[1].line]).kind = "err"
             /\ \A i \in 1..(pret[1].line - 1) : ExpectedLine(ls[i]).kind # "err"
        ELSE pret = Some(OkRows(ValidRows(ls)))

-----------------------------------------------------------------------------
(* Properties of the query path *)

RecordCount(blob) == Len(blob) \div LEADER_GEO_RECORD_SIZE

\* the bytes stored right after the records of the blob whose key is `key`
StoredBytes(blob, key) ==
    { blob[LEADER_GEO_RECORD_SIZE * r + PUBKEY_LEN + 1] :
        r \in { q \in 0..(RecordCount(blob) - 1) : BlobKey(blob, q) = key } }

\* a blob as write_binary_map emits it: whole records, keys strictly increasing
SortedBlob(blob) ==
    /\ Len(blob) % LEADER_GEO_RECORD_SIZE = 0
    /\ \A r \in 0..(RecordCount(blob) - 2) :
          LexLess(BlobKey(blob, r), BlobKey(blob, r + 1))

\* C2: Against a blob whose length is not a multiple of 33, whatever its
\* length and content, lookup_geo_bucket returns None for every key and has
\* read no byte of the blob.
C2_MisalignedNotFound ==
    Len(geo_map) % 33 # 0 =>
        /\ probes = <<>>
        /\ found = None
        /\ qpc \in {"idle", "enter", "returned"}

\* two whole records and three more bytes, queried for the key of the first
C2_Witness ==
    /\ qpc = "returned"
    /\ Len(geo_map) = 2 * 33 + 3
    /\ qkey = Some(KeyA)
    /\ BlobKey(geo_map, 0) = KeyA
    /\ found = None

\* the label and the region of a bucket byte 1..4
LabelOfByte(b) ==
    CASE b = 1 -> LabelEU [] b = 2 -> LabelNA [] b = 3 -> LabelAPAC [] b = 4 -> LabelME
RegionOfByte(b) ==
    CASE b = 1 -> "Frankfurt" [] b = 2 -> "NewYork" [] b = 3 -> "Tokyo" [] b = 4 -> "Dubai"

\* the 32 bytes an identifier of LeaderPool is the base58 text of, None for
\* those that are no base58 text of exactly 32 bytes
KeyOfLeader(l) ==
    CASE l = IdKeyA -> Some(KeyA)
      [] l = IdKeyB -> Some(KeyB)
      [] l = IdKeyC -> Some(KeyC)
      [] l = IdKeyD -> Some(KeyD)
      [] OTHER -> None

\* C3: derive_leader_geo_and_region reads only inside the blob (it cannot
\* panic) and returns a label among UNKNOWN, EU, NA, APAC, ME.  A label other than UNKNOWN is the label of a
\* byte 1..4 stored under the decoded leader key in an aligned blob, and the
\* region is that label's region; when the identifier does not decode to 32
\* bytes, the blob is misaligned, the key is absent or its byte is 0 or above
\* 4, the label is UNKNOWN and the region is fallback_region(identifier).
C3_DeriveTotal ==
    /\ \A i \in 1..Len(probes) : 0 <= probes[i].lo /\ probes[i].hi < Len(geo_map)
    /\ qpc = "done" =>
          LET o == out[1]
              k == KeyOfLeader(leader)
              stored == IF k = None \/ Len(geo_map) % 33 # 0 THEN {}
                        ELSE StoredBytes(geo_map, k[1])
          IN  /\ o.geo \in {UNKNOWN_GEO, LabelEU, LabelNA, LabelAPAC, LabelME}
              /\ o.region \in ServerRegions
              /\ o.geo # UNKNOWN_GEO =>
                    \E b \in stored \cap 1..4 :
                        o.geo = LabelOfByte(b) /\ o.region = RegionOfByte(b)
              /\ o.geo = UNKNOWN_GEO => o.region = fallback_region(leader)
              /\ stored \cap 1..4 = {} => o.geo = UNKNOWN_GEO
              /\ (SortedBlob(geo_map) /\ stored \cap 1..4 # {}) => o.geo # UNKNOWN_GEO

\* the leader found with bucket byte 4 in a two-record map
C3_Witness ==
    /\ qpc = "done"
    /\ leader = IdKeyD
    /\ geo_map = KeyA \o <<0>> \o KeyD \o <<4>>
    /\ out = Some([geo |-> LabelME, region |-> "Dubai"])

\* an identifier that is no base58 text, against a misaligned blob
C3_WitnessUnknown ==
    /\ qpc = "done"
    /\ leader = IdBadChar
    /\ geo_map = <<1, 2, 3>>
    /\ out = Some([geo |-> UNKNOWN_GEO, region |-> "Dubai"])

-----------------------------------------------------------------------------
(* Properties of parse_cluster_nodes_response *)

\* the address each socket string of the node pool stands for, None for
\* those that hold no address
IpOfSocket(socket) ==
    CASE socket = Sock1234 -> Some(IpV4(1, 2, 3, 4))
      [] socket = Sock5678 -> Some(IpV4(5, 6, 7, 8))
      [] socket = Sock9999 -> Some(IpV4(9, 9, 9, 9))
      [] socket = SockBigPort -> Some(IpV4(10, 0, 0, 1))
      [] socket = SockV6 -> Some(IpV6(<<8193, 3512, 0, 0, 0, 0, 0, 1>>))
      [] socket = SockBracket -> Some(IpV6(<<0, 0, 0, 0, 0, 0, 0, 1>>))
      [] OTHER -> None

\* the address a member of a node holds, if it is a string holding one
AddressOf(member) ==
    IF member.kind = "string" THEN IpOfSocket(member.str) ELSE None

\* the 32-byte key a pubkey member holds, if it is a string holding one
PubkeyOf(member) ==
    IF member.kind = "string" THEN KeyOfLeader(member.str) ELSE None

\* the transports of a node that hold an address, as positions of the
\* preference order tpu_quic, tpu, gossip, rpc
Addressed(node) == { i \in 1..4 : AddressOf(node[TransportKeys[i]]) # None }

\* one row for a node with a key and an address, from its first addressed
\* transport; no row for any other node
ExpectedRow(node) ==
    IF PubkeyOf(node.pubkey) = None \/ Addressed(node) = {} THEN <<>>
    ELSE LET first == CHOOSE i \in Addressed(node) : \A j \in Addressed(node) : i <= j IN
         <<[pubkey |-> PubkeyOf(node.pubkey)[1],
            geo_source |-> IpSource(AddressOf(node[TransportKeys[first]])[1])]>>

RECURSIVE ExpectedRows(_)
ExpectedRows(nodes) ==
    IF nodes = <<>> THEN <<>> ELSE ExpectedRow(Head(nodes)) \o ExpectedRows(Tail(nodes))

\* the rows so far are those of the nodes visited, and the call has not failed
RowsFollowNodes ==
    /\ npc # "err"
    /\ npc = "nodes" =>
         nodeRows = ExpectedRows(SubSeq(payload.result.items, 1, nodeIdx - 1))
    /\ npc = "ok" => nodeRows = ExpectedRows(payload.result.items)

\* C10: for a response with a result array the call does not fail and
\* returns, in node order, one row for each node that has a string pubkey of
\* 32 bytes and an address among tpu_quic, tpu, gossip, rpc, taken from the
\* first of these that parses; every other node is skipped.
C10_RowsOfResultArray ==
    (npc # "idle" /\ payload.result.kind = "array") => RowsFollowNodes

\* C10, amended: the same for a response with a result array and no "error"
\* member; a response that has an "error" member fails whatever its result.
C10_RowsOfResultArrayWithoutError ==
    /\ (npc # "idle" /\ payload.result.kind = "array" /\ payload.error.kind = "absent")
          => RowsFollowNodes
    /\ (npc \in {"nodes", "ok", "err"} /\ payload.error.kind # "absent")
          => (npc = "err" /\ nodeRows = <<>>)

\* the call returned one row for two nodes: one node was skipped, and the
\* row's address is that of gossip, the third transport
C10_Witness ==
    /\ npc = "ok"
    /\ Len(payload.result.items) = 2
    /\ Len(nodeRows) = 1
    /\ nodeRows[1].geo_source.ip = Some(IpV4(9, 9, 9, 9))
    /\ NodeGossip \in { payload.result.items[i] : i \in 1..2 }

-----------------------------------------------------------------------------
(* Properties of the classifiers *)

LabelBuckets ==
    { <<UNKNOWN_GEO, "Unknown">>, <<LabelEU, "Eu">>, <<LabelNA, "Na">>,
      <<LabelAPAC, "Apac">>, <<LabelME, "Me">> }

\* the bucket whose label equals s without regard to case, if there is one
BucketNamed(s) ==
    IF \E lb \in LabelBuckets : lb[1] = to_ascii_uppercase(s)
    THEN Some((CHOOSE lb \in LabelBuckets : lb[1] = to_ascii_uppercase(s))[2])
    ELSE None

\* s without one leading '@', if it has one
WithoutOneAt(s) == IF Len(s) > 0 /\ s[1] = 64 THEN Tail(s) ELSE s

\* C11: from_label returns a bucket exactly when the text, trimmed and with
\* at most one leading '@' removed, is UNKNOWN, EU, NA, APAC or ME in any
\* case, and then that bucket; every other text, one with two or more '@' in
\* front of a label included, gives none.
C11_OneOptionalAt ==
    labelRet # None => labelRet[1] = BucketNamed(WithoutOneAt(trim(text)))

\* what from_label does: every leading '@' of the trimmed text is removed
FromLabelStripsEveryAt ==
    labelRet # None => labelRet[1] = BucketNamed(TrimStartOf(trim(text), {64}))

\* C12: bucket_from_geo_input gives the bucket from_label gives whenever
\* from_label matches the text (a label behind '@', and UNKNOWN, included),
\* and otherwise what bucket_from_country_iso gives on the uppercased text.
C12_LabelFirstThenCountry ==
    (labelRet # None /\ inputRet # None) =>
        inputRet[1] = IF labelRet[1] # None THEN labelRet[1][1]
                      ELSE bucket_from_country_iso(to_ascii_uppercase(text))

\* what bucket_from_geo_input does: a label is matched on the trimmed text as
\* it stands, '@' is not removed
GeoInputKeepsAt ==
    inputRet # None =>
        inputRet[1] = IF BucketNamed(trim(text)) # None THEN BucketNamed(trim(text))[1]
                      ELSE bucket_from_country_iso(to_ascii_uppercase(text))

\* the country codes of each bucket, as the claim lists them
ClaimedCodes ==
    [ Eu |-> { <<68, 69>>, <<70, 82>>, <<78, 76>>, <<71, 66>>, <<67, 72>>,    \* DE FR NL GB CH
               <<83, 69>>, <<78, 79>>, <<80, 76>>, <<69, 83>>, <<73, 84>> },  \* SE NO PL ES IT
      Me |-> { <<65, 69>>, <<83, 65>>, <<73, 76>>, <<84, 82>>,                \* AE SA IL TR
               <<81, 65>>, <<66, 72>>, <<79, 77>>, <<75, 87>> },              \* QA BH OM KW
      Na |-> { <<85, 83>>, <<67, 65>>, <<77, 88>> },                          \* US CA MX
      Apac |-> { <<74, 80>>, <<75, 82>>, <<83, 71>>, <<72, 75>>,              \* JP KR SG HK
                 <<84, 87>>, <<73, 78>>, <<65, 85>>, <<78, 90>> } ]           \* TW IN AU NZ

\* byte c is the upper-case letter u or its lower-case form
SameLetter(c, u) == c = u \/ c = u + 32

\* t is the code in some case between whitespace, and nothing else
SpellsCode(t, code) ==
    \E i \in 1..Len(t) :
        /\ \A j \in 1..(i - 1) : t[j] \in Whitespace
        /\ i + 1 <= Len(t)
        /\ SameLetter(t[i], code[1]) /\ SameLetter(t[i + 1], code[2])
        /\ \A j \in (i + 2)..Len(t) : t[j] \in Whitespace

SpellsOneOf(t, codes) == \E code \in codes : SpellsCode(t, code)

\* C13: bucket_from_country_iso looks at the code without regard to case and
\* surrounding whitespace: a code of the Eu, Me, Na or Apac list gives that
\* bucket, anything else (BR, the empty text) gives Unknown; the four lists
\* share no code.
C13_CountryTable ==
    /\ \A a, b \in DOMAIN ClaimedCodes : a # b => ClaimedCodes[a] \cap ClaimedCodes[b] = {}
    /\ isoRet # None =>
         isoRet[1] = IF SpellsOneOf(text, ClaimedCodes.Eu) THEN "Eu"
                     ELSE IF SpellsOneOf(text, ClaimedCodes.Me) THEN "Me"
                     ELSE IF SpellsOneOf(text, ClaimedCodes.Na) THEN "Na"
                     ELSE IF SpellsOneOf(text, ClaimedCodes.Apac) THEN "Apac"
                     ELSE "Unknown"

\* " kw " was classified, and came out as Me
C13_Witness ==
    /\ text = <<32, 107, 119, 32>>
    /\ isoRet = Some("Me")

\* the region of a bucket, as the claim lists them
ClaimedRegion(bucket) ==
    CASE bucket = "Eu" -> Some("Frankfurt")
      [] bucket = "Me" -> Some("Dubai")
      [] bucket = "Na" -> Some("NewYork")
      [] bucket = "Apac" -> Some("Tokyo")
      [] OTHER -> None

\* the bucket section 4.1 assigns to a text: the label's bucket when the
\* text, trimmed and without one leading '@', is a label in any case, and
\* otherwise the bucket of its country code
SectionBucket(t) ==
    IF BucketNamed(WithoutOneAt(trim(t))) # None
    THEN BucketNamed(WithoutOneAt(trim(t)))[1]
    ELSE IF SpellsOneOf(t, ClaimedCodes.Eu) THEN "Eu"
    ELSE IF SpellsOneOf(t, ClaimedCodes.Me) THEN "Me"
    ELSE IF SpellsOneOf(t, ClaimedCodes.Na) THEN "Na"
    ELSE IF SpellsOneOf(t, ClaimedCodes.Apac) THEN "Apac"
    ELSE "Unknown"

\* the same with the label matched on the trimmed text as it stands
AsItStandsBucket(t) ==
    IF BucketNamed(trim(t)) # None
    THEN BucketNamed(trim(t))[1]
    ELSE IF SpellsOneOf(t, ClaimedCodes.Eu) THEN "Eu"
    ELSE IF SpellsOneOf(t, ClaimedCodes.Me) THEN "Me"
    ELSE IF SpellsOneOf(t, ClaimedCodes.Na) THEN "Na"
    ELSE IF SpellsOneOf(t, ClaimedCodes.Apac) THEN "Apac"
    ELSE "Unknown"

\* C14: on every text region_from_geo (procedure) returns the region of the
\* bucket the classifier of section 4.1 assigns to it (Eu Frankfurt, Me
\* Dubai, Na NewYork, Apac Tokyo) and none for Unknown or an unrecognized
\* text, and so returns what region_from_geo_input (geo-rules) returns.
C14_RegionOfClassifiedBucket ==
    /\ geoRet # None => geoRet[1] = ClaimedRegion(SectionBucket(text))
    /\ (geoRet # None /\ geoInputRet # None) => geoRet[1] = geoInputRet[1]

\* what the two region functions do: both give the region of the bucket of
\* the text with '@' left in place, so a label behind '@' has no region
RegionKeepsAt ==
    /\ geoRet # None => geoRet[1] = ClaimedRegion(AsItStandsBucket(text))
    /\ geoInputRet # None => geoInputRet[1] = ClaimedRegion(AsItStandsBucket(text))

\* "@EU" went through both region functions, and neither found a region
RegionOfAtLabelMissing ==
    /\ text = <<64, 69, 85>>
    /\ geoRet = Some(None)
    /\ geoInputRet = Some(None)

-----------------------------------------------------------------------------
(* Properties of the region choice *)

\* The hash modulo 4.  4 divides 2^64, so the two low bits of the hash after
\* a byte depend only on the two low bits before it and of the byte: the XOR
\* acts bit by bit, and the factor 0x100000001b3 is 3 modulo 4.
Xor2(r, c) == ((r + c) % 2) + 2 * (((r \div 2) + (c \div 2)) % 2)

Low2Step(r, byte) == (Xor2(r, byte % 4) * 3) % 4

\* what the bytes lo .. hi make of each of the four values 0 .. 3, the value
\* r at index r + 1; a range of several bytes is its halves composed
RECURSIVE Low2Map(_, _, _)
Low2Compose(first, second) == [r \in 1..4 |-> second[first[r] + 1]]

Low2Map(bytes, lo, hi) ==
    CASE lo > hi -> [r \in 1..4 |-> r - 1]
      [] lo = hi -> [r \in 1..4 |-> Low2Step(r - 1, bytes[lo])]
      [] OTHER -> Low2Compose(Low2Map(bytes, lo, (lo + hi) \div 2),
                              Low2Map(bytes, ((lo + hi) \div 2) + 1, hi))

\* 0xcbf29ce484222325 modulo 4: that of its low byte 0x25
SeedLow2 == 37 % 4

\* the region the claim indexes by the hash modulo 4
RegionAt(r) ==
    CASE r = 0 -> "Dubai"
      [] r = 1 -> "Frankfurt"
      [] r = 2 -> "NewYork"
      [] r = 3 -> "Tokyo"

ClaimedFallback(id) == RegionAt(Low2Map(id, 1, Len(id))[SeedLow2 + 1])

\* C15: fallback_region always returns a region, the one indexed by the 64-bit
\* FNV-1a hash of the identifier modulo 4 (0 Dubai, 1 Frankfurt, 2 NewYork,
\* 3 Tokyo; seed 0xcbf29ce484222325, per byte XOR then multiply by
\* 0x100000001b3 modulo 2^64); repeated calls return the same region, and the
\* empty identifier gets the region of the seed modulo 4.  The hashes of "",
\* "a" and "foobar" are the published ones.
C15_FallbackIsFnv1aMod4 ==
    /\ fnv1a64(<<>>) = <<37, 35, 34, 132, 228, 156, 242, 203>>          \* 0xcbf29ce484222325
    /\ fnv1a64(<<97>>) = <<140, 236, 1, 134, 76, 220, 99, 175>>         \* 0xaf63dc4c8601ec8c
    /\ fnv1a64(IdFoobar) = <<232, 103, 57, 247, 113, 65, 148, 133>>     \* 0x85944171f73967e8
    /\ \A i \in 1..Len(fallbackRets) :
         /\ fallbackRets[i] \in ServerRegions
         /\ fallbackRets[i] = ClaimedFallback(identifier)
         /\ fallbackRets[i] = fallbackRets[1]
         /\ identifier = <<>> => fallbackRets[i] = RegionAt(SeedLow2)

\* fallback_region was called twice on "validator-x" and returned Dubai twice
C15_Witness ==
    /\ identifier = IdValidatorX
    /\ fallbackRets = <<"Dubai", "Dubai">>

\* C16: choose_region(geo, identifier) is region_from_geo(geo) whenever that
\* is a region, whatever the identifier (geo EU always gives Frankfurt), and
\* fallback_region(identifier) otherwise; repeated calls with the same
\* arguments return the same region.
C16_GeoThenFallback ==
    \A i \in 1..Len(chooseRets) :
        /\ region_from_geo(geo) # None => chooseRets[i] = region_from_geo(geo)[1]
        /\ geo = LabelEU => chooseRets[i] = "Frankfurt"
        /\ region_from_geo(geo) = None =>
              /\ chooseRets[i] = fallback_region(identifier)
              /\ \A j \in 1..Len(fallbackRets) : chooseRets[i] = fallbackRets[j]
        /\ chooseRets[i] = chooseRets[1]

\* choose_region was called twice with geo UNKNOWN and identifier "anything"
\* and returned Tokyo twice, the region fallback_region returned
C16_Witness ==
    /\ geo = UNKNOWN_GEO
    /\ identifier = IdAnything
    /\ chooseRets = <<"Tokyo", "Tokyo">>
    /\ fallbackRets = <<"Tokyo">>

\* choose_region was called with geo EU and an identifier whose hash picks Tokyo
C16_KnownGeoReached ==
    /\ geo = LabelEU
    /\ identifier = IdAnything
    /\ chooseRets = <<"Frankfurt">>
    /\ fallbackRets = <<"Tokyo">>

-----------------------------------------------------------------------------
(* Properties of find_leader_for_slot_index *)

\* a is before b in the byte-wise lexicographic order of strings
StrBefore(a, b) ==
    \E i \in 1..Len(b) :
        /\ i <= Len(a) + 1
        /\ \A j \in 1..(i - 1) : a[j] = b[j]
        /\ i <= Len(a) => a[i] < b[i]

\* the leaders whose slot list holds slot_index
Holders ==
    { l \in DOMAIN leader_schedule :
        \E i \in DOMAIN leader_schedule[l] : leader_schedule[l][i] = slot_index }

\* C17: find_leader_for_slot_index returns the lexicographically smallest
\* of the leaders whose slot list contains the slot index, in whatever order
\* the schedule is iterated, and none exactly when no slot list contains it.
C17_SmallestHolder ==
    spc = "done" =>
        /\ leaderRet = None <=> Holders = {}
        /\ leaderRet # None =>
              /\ leaderRet[1] \in Holders
              /\ \A l \in Holders : l = leaderRet[1] \/ StrBefore(leaderRet[1], l)

\* "B", "aa" and "validator-a" hold the slot, and "B" was returned
C17_Witness ==
    /\ spc = "done"
    /\ Holders = { <<66>>, <<97, 97>>, ValidatorA }
    /\ leaderRet = Some(<<66>>)

-----------------------------------------------------------------------------
(* Properties of the binary search on arbitrary blobs *)

\* C18: against a blob of whole records, whatever they hold (unsorted, keys
\* repeated, no record at all), every iteration of lookup_geo_bucket has
\* 0 <= left <= mid < right <= n, n the number of records, so the key slice
\* [mid*33, mid*33+32) and the bucket byte at mid*33+32 are inside the blob;
\* the call never panics.
C18_SearchInBounds ==
    /\ qpc # "panicked"
    /\ Len(geo_map) % 33 = 0 =>
         /\ \A i \in 1..Len(probes) :
               /\ 0 <= probes[i].left
               /\ probes[i].left <= probes[i].mid
               /\ probes[i].mid < probes[i].right
               /\ probes[i].right <= Len(geo_map) \div 33
               /\ probes[i].mid * 33 + 32 < Len(geo_map)
               /\ probes[i].lo = probes[i].mid * 33
               /\ probes[i].hi <= probes[i].mid * 33 + 32
         /\ qpc = "search" =>
               (0 <= left /\ left <= right /\ right <= Len(geo_map) \div 33)

\* an unsorted blob with a repeated key, searched for an absent key: the
\* second iteration probed the last record
C18_Witness ==
    /\ qpc = "returned"
    /\ geo_map = KeyD \o <<4>> \o KeyA \o <<1>> \o KeyA \o <<0>>
    /\ qkey = Some(KeyB)
    /\ Len(probes) = 2
    /\ probes[2].mid = 2
    /\ probes[2].right = 3
    /\ found = None

\* floor(log2(n)) for n >= 1
RECURSIVE Log2Floor(_)
Log2Floor(n) == IF n <= 1 THEN 0 ELSE 1 + Log2Floor(n \div 2)

\* the most records a search of n records probes
MaxProbes(n) == IF n = 0 THEN 0 ELSE Log2Floor(n) + 1

\* what the iterations so far say about the search of a blob of whole records
SearchShrinks ==
    Len(geo_map) % 33 = 0 =>
        /\ Len(probes) <= MaxProbes(Len(geo_map) \div 33)
        /\ \A i \in 1..(Len(probes) - 1) :
              /\ probes[i + 1].left >= probes[i].left
              /\ probes[i + 1].right <= probes[i].right
              /\ probes[i + 1].right - probes[i + 1].left
                    <= (probes[i].right - probes[i].left) \div 2
        /\ (qpc = "search" /\ probes # <<>>) =>
              right - left
                <= (probes[Len(probes)].right - probes[Len(probes)].left) \div 2
        /\ (qpc = "returned"
              /\ \A i \in 1..Len(probes) : BlobKey(geo_map, probes[i].mid) # qkey[1])
             => found = None

\* C19: against a blob of whole records lookup_geo_bucket terminates: an
\* iteration that does not return leaves an interval [left, right) inside the
\* one it began with and at most half as wide, so a blob of n >= 1 records is
\* probed at most floor(log2(n)) + 1 times and an empty one never, and the
\* call then returns not found unless a probe matched.
C19_SearchTerminates ==
    /\ []SearchShrinks
    /\ (qpc = "enter") ~> (qpc = "returned")

\* six records with key B searched for key A: three probes, the most for
\* six records, then not found
C19_Witness ==
    /\ qpc = "returned"
    /\ Len(geo_map) = 6 * 33
    /\ \A r \in 0..5 : BlobKey(geo_map, r) = KeyB
    /\ qkey = Some(KeyA)
    /\ Len(probes) = 3
    /\ found = None

\* C20: against a blob of whole records, sorted or not, keys repeated or
\* not, a byte that lookup_geo_bucket returns for a key is the byte stored
\* right after a record whose 32 key bytes are that key, the record the last
\* iteration probed, and it is returned as it is, above 4 or not; a byte of a
\* record with another key is never returned.
C20_ReturnedByteFollowsKey ==
    (Len(geo_map) % 33 = 0 /\ found # None) =>
        /\ qpc = "returned"
        /\ found[1] \in StoredBytes(geo_map, qkey[1])
        /\ BlobKey(geo_map, probes[Len(probes)].mid) = qkey[1]
        /\ found[1] = geo_map[probes[Len(probes)].mid * 33 + 32 + 1]

\* an unsorted blob with a repeated key: the byte 255 stored under key D
\* between two records of key A came back as it is
C20_Witness ==
    /\ qpc = "returned"
    /\ geo_map = KeyA \o <<1>> \o KeyD \o <<255>> \o KeyA \o <<0>>
    /\ qkey = Some(KeyD)
    /\ found = Some(255)

-----------------------------------------------------------------------------
(* Properties of LeaderRoutingProcedure::run *)

StageOrder ==
    << "get_slot", "get_epoch_schedule", "get_leader_schedule", "slot_index",
       "resolve_leader", "derive" >>

\* run returned an error of code 500 whose data names the stage
FailedAt(stage) ==
    /\ ret # None
    /\ ~ret[1].ok
    /\ ret[1].code = 500
    /\ ret[1].data # None
    /\ ret[1].data[1].stage = stage

\* the leaders of the fetched schedule whose slots hold the slot index
RunHolders ==
    { l \in DOMAIN fetched[1].schedule :
        \E i \in DOMAIN fetched[1].schedule[l] :
            fetched[1].schedule[l][i] = indexInEpoch[1] }

\* C21: run executes get_slot, get_epoch_schedule, get_leader_schedule,
\* slot_index, resolve_leader and the geo/region derivation in this order.
\* The first stage that fails ends the call with an error of code 500 whose
\* data names that stage, and no later stage is executed; a leader schedule
\* that is absent is reported under get_leader_schedule, a slot index no
\* leader owns under resolve_leader.  A success output comes only after all
\* six stages and carries the fetched slot and the resolved leader.
C21_StagesInOrder ==
    /\ Len(stages) <= Len(StageOrder)
    /\ stages = SubSeq(StageOrder, 1, Len(stages))
    /\ ret # None => rpos = "done"
    /\ rpos = "done" => ret # None
    /\ (ret # None /\ ~ret[1].ok) =>
          /\ stages # <<>>
          /\ stages[Len(stages)] # "derive"
          /\ FailedAt(stages[Len(stages)])
    /\ (fetched # None /\ fetched[1].kind # "Some") => FailedAt("get_leader_schedule")
    /\ (Len(stages) >= 5 /\ RunHolders = {}) => FailedAt("resolve_leader")
    /\ (ret # None /\ ret[1].ok) =>
          /\ stages = StageOrder
          /\ slot # None /\ ret[1].slot = slot[1]
          /\ routed # None /\ ret[1].leader = routed[1]
          /\ ret[1].leader \in RunHolders

\* all six stages ran: slot 2 of an epoch that began at slot 1, a schedule of
\* three leaders, the leader found in the compiled-in map under bucket byte 4
C21_Witness ==
    /\ rpos = "done"
    /\ stages = StageOrder
    /\ slot = Some(2)
    /\ first_slot_in_epoch = Some(1)
    /\ Cardinality(DOMAIN fetched[1].schedule) = 3
    /\ ret[1].ok
    /\ ret[1].slot = 2
    /\ ret[1].leader = IdKeyD
    /\ ret[1].leader_geo = LabelME
    /\ ret[1].closest_region = "Dubai"

\* the node answered without a leader schedule: run stopped at the third stage
C21_WitnessMissing ==
    /\ rpos = "done"
    /\ fetched = Some([kind |-> "None", schedule |-> <<>>])
    /\ stages = SubSeq(StageOrder, 1, 3)
    /\ FailedAt("get_leader_schedule")

\* the slot index did not fit usize: run stopped at the fourth stage
C21_WitnessNarrow ==
    /\ rpos = "done"
    /\ stages = SubSeq(StageOrder, 1, 4)
    /\ FailedAt("slot_index")

\* no leader owned the slot index: run stopped at the fifth stage
C21_WitnessNoLeader ==
    /\ rpos = "done"
    /\ stages = SubSeq(StageOrder, 1, 5)
    /\ fetched[1].schedule # <<>>
    /\ FailedAt("resolve_leader")

====
